---- MODULE Spec2Model ----
(***************************************************************************)
(* Price-predictor browser extension: product identity, the per-product    *)
(* price-history store, the derived summary and the buy/wait signal.       *)
(*                                                                         *)
(* Encoding of JavaScript values                                           *)
(*  - A price value is an integer count of hundredths: the parser's regex  *)
(*    /(\d{1,6}(?:[.,]\d{2})?)/ admits zero or two decimals, so every      *)
(*    parsed value is k/100 for a natural k, and two parsed values are     *)
(*    === exactly when their k are equal.                                  *)
(*  - A JS number passed to computeSignal/pctChange is Num(k); a missing   *)
(*    value is Undefined; null is Null.                                    *)
(*  - `lowest * 1.03` and `lowest * 1.15` are IEEE-754 products.  For      *)
(*    every hundredth-valued amount up to 999999.99 the comparisons        *)
(*    `current <= lowest * 1.03` and `current >= lowest * 1.15` have the   *)
(*    same outcome as the exact comparisons 100*c <= 103*l and             *)
(*    100*c >= 115*l (double(1.03) lies above 1.03, double(1.15) below     *)
(*    1.15), which is how they are written here.                           *)
(*  - Math.round is applied to the exact quotient; the IEEE quotient       *)
(*    differs from it only at exact ties k + 1/2, where it may fall to     *)
(*    either neighbour.                                                    *)
(*  - A URL is a record of its parsed components; the query string is the  *)
(*    sequence of <<key, value>> pairs held by URLSearchParams.            *)
(***************************************************************************)
EXTENDS Integers, Sequences, FiniteSets, TLC

VARIABLES
    store,      \* chrome.storage.local["PRICE_HISTORY_BY_PRODUCT"]
    now,        \* Date.now(), milliseconds
    loc,        \* loc[c]: location of page context c (a parsed URL)
    pc,         \* pc[c]: position of the operation running in context c
    live,       \* live[c]: price extracted by the running operation
    all,        \* all[c]: the map returned by the pending savePricePoint read
    resp,       \* resp[c]: last TRACK_PRICE_AUTO response sent by context c
    widget,     \* widget[c]: text of the panel's price rows
    lastSignal, \* lastSignal[c]: result of the last computeSignal call of renderPrice
    calls,      \* history variable: completed savePricePoint calls, in order
    ops,        \* number of operations started
    sigCurrent, \* input of computeSignal / pctChange
    sigLowest,  \* input of computeSignal / pctChange
    sigOut,     \* their results (content script, popup, downloads popup)
    urlA,       \* a URL
    urlB,       \* urlA after edits of its query string
    pidA,       \* ProductId of urlA
    pidB,       \* ProductId of urlB
    edits,      \* history variable: keys edited between urlA and urlB
    text,       \* argument of extractPriceFromText: a string as its sequence of characters
    parsed,     \* its result
    doc,        \* the document: elements, meta contents, JSON-LD offers, body text
    extracted,  \* what extractPriceFromPage computed for it
    requests,   \* number of TRACK_PRICE_AUTO messages received
    sent,       \* history variable: the sendResponse calls, each with its request
    selecting,  \* select-price mode is active
    hintEl,     \* the hint element is in the document
    modeListeners, \* the document's capture listeners among onMouseOver, onMouseOut, onClickPick
    keyListeners,  \* number of onKey closures registered on window for keydown
    highlighted, \* the elements carrying the class pc2-selecting
    co2Pc,      \* position of the CO2_ESTIMATE_REQUEST handler
    co2Payload, \* the payload of the request being handled
    co2Query,   \* index of the search query being tried
    co2Factor,  \* the emission factor picked so far
    co2Requests, \* number of CO2_ESTIMATE_REQUEST messages received
    co2Sent,    \* history variable: the sendResponse calls, each with its request
    lastHref,   \* the URL the poll saw last
    snapshot,   \* chrome.storage.local["LAST_PRODUCT_SNAPSHOT"]
    pendingWrites, \* the writes of that key issued and not yet completed, oldest first
    navs,       \* number of navigations of the page
    notifPayload, \* chrome.storage.local["NOTIF_PAYLOAD"]
    alarm,      \* the alarm named price_co2_followup_alarm, when there is one
    firing,     \* onAlarm handlers that have not yet read NOTIF_PAYLOAD
    shown,      \* history variable: the notifications created, with their times
    scheduled,  \* history variable: the SCHEDULE_NOTIFICATION requests and their responses
    script,     \* which content script the page evaluates
    evaluations, \* number of times it was evaluated in the page
    injected,   \* window.__PRICE_CO2_WIDGET__
    widgets,    \* number of widgets (button and panel) in the document
    timers,     \* number of URL-poll interval timers
    msgListeners, \* number of chrome.runtime.onMessage listeners of the page
    docListeners  \* number of pointerdown listeners on the document

storeVars == <<store, now, loc, pc, live, all, resp, widget, lastSignal, calls, ops>>
sigVars   == <<sigCurrent, sigLowest, sigOut>>
urlVars   == <<urlA, urlB, pidA, pidB, edits>>
parseVars == <<text, parsed>>
pageVars  == <<doc, extracted>>
autoVars  == <<requests, sent>>
selectVars == <<selecting, hintEl, modeListeners, keyListeners, highlighted>>
co2Vars   == <<co2Pc, co2Payload, co2Query, co2Factor, co2Requests, co2Sent>>
snapVars  == <<lastHref, snapshot, pendingWrites, navs>>
notifVars == <<notifPayload, alarm, firing, shown, scheduled>>
injectVars == <<script, evaluations, injected, widgets, timers, msgListeners, docListeners>>
handlerVars == <<autoVars, selectVars, co2Vars, snapVars, notifVars, injectVars>>
extVars   == <<parseVars, pageVars, handlerVars>>
vars      == <<storeVars, sigVars, urlVars, extVars>>

----------------------------------------------------------------------------
(* Bounds of the model *)

MaxOps     == 3
MaxTabOps  == 2
TickMs     == 30001
MaxTime    == 60002
CapOps     == 250
MaxPrice   == 120
MaxQuery   == 3
MaxTokens  == 3
MaxElements == 2
MaxRequests == 2
MaxKeyListeners == 2
MaxCo2Requests == 2
MaxNavs    == 3
MaxPending == 2
MaxPriceTokens == 4

(* Program constants *)

DEDUP_WINDOW_MS == 60000
HISTORY_CAP     == 200

Tabs == {"t1", "t2"}

Null      == [null |-> TRUE]
Undefined == [undefined |-> TRUE]
Num(k)    == [n |-> k]
Dash      == "-"

----------------------------------------------------------------------------
(* Product identity *)

\* mutant: the variant selector is deleted with the tracking parameters
TrackingParamsAndVariant ==
    << "utm_source", "utm_medium", "utm_campaign", "utm_content", "utm_term",
       "gclid", "fbclid", "msclkid", "yclid", "ttclid", "variant" >>

\* the keys canonicalUrl deletes
TRACKING_PARAMS ==
    << "utm_source", "utm_medium", "utm_campaign", "utm_content", "utm_term",
       "gclid", "fbclid", "msclkid", "yclid", "ttclid" >>

\* mutant: only the first pair with that name is removed
DeleteFirstParam(query, name) ==
    IF \E i \in 1..Len(query) : query[i][1] = name
    THEN LET first == CHOOSE i \in 1..Len(query) :
                          query[i][1] = name /\ \A j \in 1..(i - 1) : query[j][1] # name
         IN  SubSeq(query, 1, first - 1) \o SubSeq(query, first + 1, Len(query))
    ELSE query

\* URLSearchParams.delete(name): removes every pair with that name
DeleteParam(query, name) == SelectSeq(query, LAMBDA kv : kv[1] # name)

RECURSIVE DeleteAll(_, _)
DeleteAll(query, names) ==
    IF names = << >> THEN query
    ELSE DeleteAll(DeleteParam(query, Head(names)), Tail(names))

\* u.origin + u.pathname + (qs ? "?" + qs : "")
canonicalUrl(rawUrl) ==
    [origin   |-> <<rawUrl.scheme, rawUrl.host>>,
     pathname |-> rawUrl.path,
     qs       |-> DeleteAll(rawUrl.query, TRACKING_PARAMS)]

\* hostname.replace(/^www\./, ""): a hostname is its sequence of labels
StripWww(hostname) ==
    IF Len(hostname) > 1 /\ Head(hostname) = "www" THEN Tail(hostname) ELSE hostname

\* `${host}|${canon}`, host taken from the page's location
getProductId(url, location) ==
    [host |-> StripWww(location.host), canon |-> canonicalUrl(url)]

----------------------------------------------------------------------------
(* Price history store *)

EmptyMap == << >>

HistoryOf(map, productId) ==
    IF productId \in DOMAIN map THEN map[productId] ELSE << >>

Put(map, productId, history) ==
    [q \in DOMAIN map \cup {productId} |-> IF q = productId THEN history ELSE map[q]]

\* mutant: the cap keeps the oldest points, history.slice(0, k)
SliceFirst(history, k) ==
    IF Len(history) <= k THEN history ELSE SubSeq(history, 1, k)

\* history.slice(-k)
SliceLast(history, k) ==
    IF Len(history) <= k THEN history
    ELSE SubSeq(history, Len(history) - k + 1, Len(history))

\* mutant: the duplicate test compares with the oldest point
IsDuplicateOldest(history, price, t) ==
    /\ Len(history) > 0
    /\ history[1].value = price.value
    /\ (t - history[1].timestamp) < DEDUP_WINDOW_MS

\* mutant: the duplicate test never expires
IsDuplicateValueOnly(history, price, t) ==
    /\ Len(history) > 0
    /\ history[Len(history)].value = price.value

\* last && last.value === price.value && (Date.now() - last.timestamp) < 60_000
IsDuplicate(history, price, t) ==
    /\ Len(history) > 0
    /\ history[Len(history)].value = price.value
    /\ (t - history[Len(history)].timestamp) < DEDUP_WINDOW_MS

\* mutant: the new point is put in front of the history
savePricePointNewestFirst(map, price, url, location, t) ==
    LET productId == getProductId(url, location)
        point     == [value     |-> price.value,
                      currency  |-> price.currency,
                      timestamp |-> t,
                      url       |-> canonicalUrl(url),
                      productId |-> productId]
    IN  Put(map, productId, <<point>> \o HistoryOf(map, productId))

\* the map savePricePoint hands to setLocal, given the map it read
savePricePoint(map, price, url, location, t) ==
    LET productId == getProductId(url, location)
        history   == HistoryOf(map, productId)
        point     == [value     |-> price.value,
                      currency  |-> price.currency,
                      timestamp |-> t,
                      url       |-> canonicalUrl(url),
                      productId |-> productId]
    IN  IF IsDuplicate(history, price, t)
        THEN Put(map, productId, history)
        ELSE Put(map, productId, SliceLast(Append(history, point), HISTORY_CAP))

\* mutant: the last value is taken for the smallest
LastValue(values) == values[Len(values)]

\* Math.min(...values), values not empty: the smallest argument
MathMin(values) ==
    CHOOSE v \in {values[i] : i \in 1..Len(values)} :
        \A i \in 1..Len(values) : v <= values[i]

\* Math.max(...values), values not empty: the largest argument
MathMax(values) ==
    CHOOSE v \in {values[i] : i \in 1..Len(values)} :
        \A i \in 1..Len(values) : v >= values[i]

\* mutant: the history is not filtered by currency
buildSummaryAllCurrencies(map, location, currency) ==
    LET productId == getProductId(location, location)
        history   == HistoryOf(map, productId)
        values    == [i \in 1..Len(history) |-> history[i].value]
    IN  IF Len(history) = 0 THEN Null
        ELSE [lowest    |-> MathMin(values),
              highest   |-> MathMax(values),
              currency  |-> currency,
              productId |-> productId,
              points    |-> Len(values),
              canonical |-> canonicalUrl(location)]

\* buildSummary(currency), given the map it read and the page's location
buildSummary(map, location, currency) ==
    LET productId  == getProductId(location, location)
        historyRaw == HistoryOf(map, productId)
        history    == SelectSeq(historyRaw, LAMBDA p : p.currency = currency)
        values     == [i \in 1..Len(history) |-> history[i].value]
    IN  IF Len(history) = 0 THEN Null
        ELSE [lowest    |-> MathMin(values),
              highest   |-> MathMax(values),
              currency  |-> currency,
              productId |-> productId,
              points    |-> Len(values),
              canonical |-> canonicalUrl(location)]

----------------------------------------------------------------------------
(* Signal engine *)

\* !x for a number or a missing value
Falsy(x) == x = Undefined \/ x = Null \/ x.n = 0

\* mutant: the lower threshold is exclusive
computeSignalStrict(current, lowest) ==
    IF Falsy(current) \/ Falsy(lowest) THEN Dash
    ELSE IF current.n * 100 < lowest.n * 103 THEN "Good time to buy"
    ELSE IF current.n * 100 >= lowest.n * 115 THEN "Consider waiting"
    ELSE "Fair price"

\* content.js computeSignal
computeSignal(current, lowest) ==
    IF Falsy(current) \/ Falsy(lowest) THEN Dash
    ELSE IF current.n * 100 <= lowest.n * 103 THEN "Good time to buy"
    ELSE IF current.n * 100 >= lowest.n * 115 THEN "Consider waiting"
    ELSE "Fair price"

\* popup.js computeSignal
popupComputeSignal(current, lowest) ==
    IF Falsy(current) \/ Falsy(lowest) THEN Dash
    ELSE IF current.n * 100 <= lowest.n * 103 THEN "Good time to buy"
    ELSE IF current.n * 100 >= lowest.n * 115 THEN "Consider waiting"
    ELSE "Fair price"

\* Math.round(x) for x = num / den, den > 0: floor(x + 1/2)
MathRound(num, den) == (2 * num + den) \div (2 * den)

\* content.js pctChange
pctChange(current, lowest) ==
    IF Falsy(current) \/ Falsy(lowest) \/ lowest.n = 0 THEN Null
    ELSE Num(MathRound((current.n - lowest.n) * 100, lowest.n))

\* typeof x !== "number" || !Number.isFinite(x)
NotANumber(x) == x = Undefined \/ x = Null

\* downloads popup.js pctChange
downloadsPctChange(current, lowest) ==
    IF NotANumber(current) \/ NotANumber(lowest) \/ lowest.n = 0 THEN Null
    ELSE Num(MathRound((current.n - lowest.n) * 100, lowest.n))

----------------------------------------------------------------------------
(* Price parser.  A string is the sequence of its characters; positions are *)
(* 1-based, so a JavaScript index idx is position idx + 1.  The regular     *)
(* expressions are modelled for strings over the characters of Alphabet:    *)
(* the alternatives left out need a character that is not in it.  The       *)
(* characters a-ring and euro sign are written "aring" and "euro".          *)

Alphabet ==
    {"0", "1", "2", "4", "5", "9", " ", ",", ".", "/", "-", "%",
     "k", "r", "K", "R", "s", "e", "S", "E", "m", "n", "x", "u", "U", "aring", "euro", "$"}

DigitChars == <<"0", "1", "2", "3", "4", "5", "6", "7", "8", "9">>

IsDigit(ch) == \E d \in 1..10 : DigitChars[d] = ch

DigitValue(ch) == (CHOOSE d \in 1..10 : DigitChars[d] = ch) - 1

\* \s
IsSpace(ch) == ch = " "

\* \w (ASCII letters, digits, underscore): the a-ring is not a word character
IsWord(ch) == IsDigit(ch) \/ ch \in {"k", "r", "K", "R", "s", "e", "S", "E", "m", "n", "x", "u", "U"}

\* toLowerCase() / the i flag
ToLower(ch) ==
    IF ch = "K" THEN "k" ELSE IF ch = "R" THEN "r"
    ELSE IF ch = "S" THEN "s" ELSE IF ch = "E" THEN "e"
    ELSE IF ch = "U" THEN "u" ELSE ch

CharAt(str, i) == IF i >= 1 /\ i <= Len(str) THEN ToLower(str[i]) ELSE ""

\* str.slice(from, to) with JavaScript indices
Slice(str, from, to) == SubSeq(str, from + 1, to)

\* (kr|sek|{euro}|\$) at position i: the length matched, 0 for no match
CurrencyAt(str, i) ==
    IF CharAt(str, i) = "k" /\ CharAt(str, i + 1) = "r" THEN 2
    ELSE IF CharAt(str, i) = "s" /\ CharAt(str, i + 1) = "e" /\ CharAt(str, i + 2) = "k" THEN 3
    ELSE IF CharAt(str, i) \in {"euro", "$"} THEN 1
    ELSE 0

\* /(kr|sek|{euro}|\$)/i.test(str)
HasCurrencyMarker(str) == \E i \in 1..Len(str) : CurrencyAt(str, i) > 0

\* the number of digits in a row from position i on
RECURSIVE DigitRun(_, _)
DigitRun(str, i) ==
    IF i <= Len(str) /\ IsDigit(str[i]) THEN 1 + DigitRun(str, i + 1) ELSE 0

\* mutant: the currency marker is optional
CurrencyEndOptional(str, k) ==
    IF IsSpace(CharAt(str, k)) /\ CurrencyAt(str, k + 1) > 0
    THEN k + 1 + CurrencyAt(str, k + 1)
    ELSE k + CurrencyAt(str, k)

\* \s?(kr|sek|{euro}|\$) from position k: the position after the match, 0 for no match
CurrencyEnd(str, k) ==
    IF IsSpace(CharAt(str, k)) /\ CurrencyAt(str, k + 1) > 0
    THEN k + 1 + CurrencyAt(str, k + 1)
    ELSE IF CurrencyAt(str, k) > 0 THEN k + CurrencyAt(str, k)
    ELSE 0

NoMatch == [found |-> FALSE]

\* a match of the pattern: number from position i to k - 1, then \s? and the marker
MatchOf(str, i, k, end) ==
    [found |-> TRUE, index |-> i - 1, number |-> SubSeq(str, i, k - 1),
     marker |-> SubSeq(str, k, end - 1), end |-> end]

\* the digits end before position j: the decimals are tried first, then the match without
MatchAfterDigits(str, i, j, hasDec) ==
    IF hasDec /\ CurrencyEnd(str, j + 3) > 0 THEN MatchOf(str, i, j + 3, CurrencyEnd(str, j + 3))
    ELSE IF CurrencyEnd(str, j) > 0 THEN MatchOf(str, i, j, CurrencyEnd(str, j))
    ELSE NoMatch

\* [.,]\d{2} at position j
DecimalsAt(str, j) ==
    /\ CharAt(str, j) \in {".", ","}
    /\ j + 2 <= Len(str)
    /\ IsDigit(str[j + 1]) /\ IsDigit(str[j + 2])

\* the pattern anchored at position i with n digits in a row there.  A run of more
\* than six digits, or a shorter prefix of the run, is followed by a digit and
\* cannot match.
MatchRun(str, i, n) ==
    IF n = 0 \/ n > 6 THEN NoMatch
    ELSE MatchAfterDigits(str, i, i + n, DecimalsAt(str, i + n))

\* /(\d{1,6}(?:[.,]\d{2})?)\s?(kr|sek|{euro}|\$)/i anchored at position i
MatchAt(str, i) == MatchRun(str, i, DigitRun(str, i))

\* str.matchAll(...): the matches from position i on, left to right, not overlapping
RECURSIVE MatchAll(_, _)
RECURSIVE MatchNext(_, _, _)
MatchNext(str, i, m) ==
    IF m.found THEN <<m>> \o MatchAll(str, m.end) ELSE MatchAll(str, i + 1)

MatchAll(str, i) ==
    IF i > Len(str) THEN << >> ELSE MatchNext(str, i, MatchAt(str, i))

\* the integer written by a sequence of digits
RECURSIVE DigitsValue(_)
DigitsValue(digits) ==
    IF digits = << >> THEN 0
    ELSE 10 * DigitsValue(SubSeq(digits, 1, Len(digits) - 1)) + DigitValue(digits[Len(digits)])

\* parseFloat(String(m[1]).replace(",", ".")), in hundredths
ParseFloat(number) ==
    IF Len(number) >= 3 /\ number[Len(number) - 2] \in {".", ","}
    THEN 100 * DigitsValue(SubSeq(number, 1, Len(number) - 3))
         + DigitsValue(SubSeq(number, Len(number) - 1, Len(number)))
    ELSE 100 * DigitsValue(number)

\* s.includes(...) tests of normalizeCurrency on the marker text
normalizeCurrency(symbol) ==
    IF \E i \in 1..Len(symbol) : CurrencyAt(symbol, i) \in {2, 3} THEN "SEK"
    ELSE IF \E i \in 1..Len(symbol) : symbol[i] = "euro" THEN "EUR"
    ELSE IF \E i \in 1..Len(symbol) : symbol[i] = "$" THEN "USD"
    ELSE "SEK"

\* \s*m{aring}n from position k
RECURSIVE SpacesThenMan(_, _)
SpacesThenMan(str, k) ==
    IF IsSpace(CharAt(str, k)) THEN SpacesThenMan(str, k + 1)
    ELSE CharAt(str, k) = "m" /\ CharAt(str, k + 1) = "aring" /\ CharAt(str, k + 2) = "n"

\* \b between positions k - 1 and k
WordBoundary(str, k) ==
    (k - 1 >= 1 /\ k - 1 <= Len(str) /\ IsWord(str[k - 1]))
        # (k >= 1 /\ k <= Len(str) /\ IsWord(str[k]))

\* BAD_CONTEXT_RE.test(str): over Alphabet, the alternatives /\s*m{aring}n,
\* kr\s*/\s*m{aring}n and \bm{aring}n\b
BAD_CONTEXT_RE(str) ==
    \E i \in 1..Len(str) :
        \/ CharAt(str, i) = "/" /\ SpacesThenMan(str, i + 1)
        \/ /\ CharAt(str, i) = "m" /\ CharAt(str, i + 1) = "aring" /\ CharAt(str, i + 2) = "n"
           /\ WordBoundary(str, i) /\ WordBoundary(str, i + 3)

\* \s?\d{1,3}\s?% from position k
PercentFrom(str, k) ==
    LET d == IF IsSpace(CharAt(str, k)) /\ DigitRun(str, k + 1) > 0 THEN k + 1 ELSE k
        n == DigitRun(str, d)
    IN  \E m \in 1..3 :
            /\ m <= n
            /\ \/ CharAt(str, d + m) = "%"
               \/ IsSpace(CharAt(str, d + m)) /\ CharAt(str, d + m + 1) = "%"

\* SALE_CONTEXT_RE.test(str): over Alphabet, the alternative -\s?\d{1,3}\s?%
SALE_CONTEXT_RE(str) ==
    \E i \in 1..Len(str) : CharAt(str, i) = "-" /\ PercentFrom(str, i + 1)

CTX_SPAN == 40

Max2(a, b) == IF a >= b THEN a ELSE b
Min2(a, b) == IF a <= b THEN a ELSE b

\* ctxAround(index): the text within 40 characters of the match
ctxAround(str, index) ==
    Slice(str, Max2(0, index - CTX_SPAN), Min2(Len(str), index + CTX_SPAN))

\* matches.map(...): value, currency, index and context of every match
ParsedMatches(str, matches) ==
    [i \in 1..Len(matches) |->
        [value    |-> ParseFloat(matches[i].number),
         currency |-> normalizeCurrency(matches[i].marker),
         idx      |-> matches[i].index,
         ctx      |-> ctxAround(str, matches[i].index)]]

\* filtered.length ? filtered : parsed
Candidates(parsedAll) ==
    IF \E i \in 1..Len(parsedAll) : ~BAD_CONTEXT_RE(parsedAll[i].ctx)
    THEN SelectSeq(parsedAll, LAMBDA q : ~BAD_CONTEXT_RE(q.ctx))
    ELSE parsedAll

\* candidates.reduce((a, b) => (b.value < a.value ? b : a)): the first of the lowest
ReduceMin(candidates) ==
    candidates[CHOOSE i \in 1..Len(candidates) :
                   /\ \A j \in 1..Len(candidates) : candidates[i].value <= candidates[j].value
                   /\ \A j \in 1..(i - 1) : candidates[j].value > candidates[i].value]

\* the candidate returned for a non-empty list of candidates, given the sale test
PickParsed(candidates, saleContext) ==
    IF saleContext /\ Len(candidates) >= 2
    THEN [value |-> ReduceMin(candidates).value, currency |-> ReduceMin(candidates).currency]
    ELSE [value |-> candidates[1].value, currency |-> candidates[1].currency]

\* extractPriceFromText(text) for a string; the matches are in index order already
ParseMatches(str, matches) ==
    IF Len(str) = 0 \/ Len(matches) = 0 THEN Null
    ELSE PickParsed(Candidates(ParsedMatches(str, matches)), SALE_CONTEXT_RE(str))

extractPriceFromText(str) == ParseMatches(str, MatchAll(str, 1))

----------------------------------------------------------------------------
(* Price extraction from the page.  An element is its text and what the     *)
(* collector reads of it: visible, banned (inside header, footer, nav, ...),*)
(* inMain, and the two layout scores.  Scores are in tenths: distanceScore  *)
(* is 0..60, fontSizeScore 0..35, the sale reward 12, the main reward 15,   *)
(* the low-price penalty 20.                                                *)

MAX_TEXT_LENGTH == 200
SALE_REWARD     == 12
MAIN_REWARD     == 15
LOW_PENALTY     == 20
LOW_VALUE       == 3000

\* mutant: the bad-context test of the collector is left out
PassesFiltersNoBadContext(el) ==
    /\ el.visible
    /\ ~el.banned
    /\ Len(el.text) > 0
    /\ Len(el.text) <= MAX_TEXT_LENGTH
    /\ HasCurrencyMarker(el.text)

\* the `continue` tests of collectCandidates, lines 304-319
PassesFilters(el) ==
    /\ el.visible
    /\ ~el.banned
    /\ Len(el.text) > 0
    /\ Len(el.text) <= MAX_TEXT_LENGTH
    /\ HasCurrencyMarker(el.text)
    /\ ~BAD_CONTEXT_RE(el.text)

\* the score of an element that passed, lines 322-338
ScoreOf(el, p) ==
    el.dist + el.font
    + (IF SALE_CONTEXT_RE(el.text) THEN SALE_REWARD ELSE 0)
    + (IF el.inMain THEN MAIN_REWARD ELSE 0)
    - (IF p.value > 0 /\ p.value < LOW_VALUE THEN LOW_PENALTY ELSE 0)

\* out.push({ value: p.value, currency: p.currency, score, text: t })
PushedCandidate(el, p) ==
    [value |-> p.value, currency |-> p.currency, score |-> ScoreOf(el, p), text |-> el.text]

\* the elements that passed with their parse, `if (!p) continue` applied
WithParse(kept) ==
    SelectSeq([i \in 1..Len(kept) |-> [el |-> kept[i], p |-> extractPriceFromText(kept[i].text)]],
              LAMBDA ep : ep.p # Null)

CandidatesOf(parsedEls) ==
    [i \in 1..Len(parsedEls) |-> PushedCandidate(parsedEls[i].el, parsedEls[i].p)]

\* collectCandidates(root, anchorEl) over the elements in document order
collectCandidates(elements) == CandidatesOf(WithParse(SelectSeq(elements, PassesFilters)))

\* the sort comparator: negative when a goes before b
Compare(a, b) == IF b.score # a.score THEN b.score - a.score ELSE b.value - a.value

\* mutant: the candidates are ordered by score alone
pickBestByScore(cands) ==
    IF Len(cands) = 0 THEN Null
    ELSE [value    |-> cands[CHOOSE i \in 1..Len(cands) :
                                 /\ \A j \in 1..Len(cands) : cands[i].score >= cands[j].score
                                 /\ \A j \in 1..(i - 1) : cands[j].score < cands[i].score].value,
          currency |-> cands[CHOOSE i \in 1..Len(cands) :
                                 /\ \A j \in 1..Len(cands) : cands[i].score >= cands[j].score
                                 /\ \A j \in 1..(i - 1) : cands[j].score < cands[i].score].currency]

\* the index of cands[0] after the stable sort: the first candidate no other goes before
SortedFirst(cands) ==
    CHOOSE i \in 1..Len(cands) :
        /\ \A j \in 1..Len(cands) : Compare(cands[i], cands[j]) <= 0
        /\ \A j \in 1..(i - 1) : Compare(cands[j], cands[i]) > 0

\* pickBest(cands)
pickBest(cands) ==
    IF Len(cands) = 0 THEN Null
    ELSE [value    |-> cands[SortedFirst(cands)].value,
          currency |-> cands[SortedFirst(cands)].currency]

\* the first text of a list that the parser accepts
RECURSIVE FirstParsed(_)
RECURSIVE FirstParsedOr(_, _)
FirstParsedOr(p, texts) == IF p # Null THEN p ELSE FirstParsed(texts)

FirstParsed(texts) ==
    IF texts = << >> THEN Null
    ELSE FirstParsedOr(extractPriceFromText(Head(texts)), Tail(texts))

\* `${price} ${currency || "SEK"}`
OfferText(offer) ==
    offer.price \o <<" ">> \o (IF offer.currency = << >> THEN <<"S", "E", "K">> ELSE offer.currency)

OfferTexts(offers) == [i \in 1..Len(offers) |-> OfferText(offers[i])]

\* tryExtractFromMetaAndLdJson(): the meta contents in selector order, then the offers
tryExtractFromMetaAndLdJson(document) ==
    IF FirstParsed(document.meta) # Null THEN FirstParsed(document.meta)
    ELSE FirstParsed(OfferTexts(document.jsonld))

\* mutant: the metadata candidate wins when it differs from the DOM one by 25% or more
extractPriceFromPageMetaOnDisagreement(domBest, metaBest, body) ==
    IF domBest # Null /\ metaBest # Null
    THEN IF domBest.value # metaBest.value
            /\ 4 * (Max2(domBest.value, metaBest.value) - Min2(domBest.value, metaBest.value))
                  >= Max2(100, Min2(domBest.value, metaBest.value))
         THEN metaBest ELSE domBest
    ELSE IF domBest # Null THEN domBest
    ELSE IF metaBest # Null THEN metaBest
    ELSE extractPriceFromText(body)

\* extractPriceFromPage() from the two candidates on: both branches of the relDiff
\* test return domBest
extractPriceFromPage(domBest, metaBest, body) ==
    IF domBest # Null /\ metaBest # Null THEN domBest
    ELSE IF domBest # Null THEN domBest
    ELSE IF metaBest # Null THEN metaBest
    ELSE extractPriceFromText(body)

----------------------------------------------------------------------------
(* Pages, extracted prices, displayed text *)

PageA        == [scheme |-> "https", host |-> <<"www", "shop", "se">>, path |-> "/p/1", query |-> << >>]
PageATracked == [scheme |-> "https", host |-> <<"www", "shop", "se">>, path |-> "/p/1", query |-> << <<"utm_source", "mail">> >>]
PageB        == [scheme |-> "https", host |-> <<"www", "shop", "se">>, path |-> "/p/2", query |-> << >>]
Pages        == {PageA, PageATracked, PageB}

Currencies == {"SEK", "EUR"}

\* what extractPriceFromPage can return: a candidate {value, currency}, or null
LivePrices ==
    { Null,
      [value |-> 0,   currency |-> "SEK"],
      [value |-> 100, currency |-> "SEK"],
      [value |-> 100, currency |-> "EUR"] }

DashCell               == [dash |-> TRUE]
formatPrice(value, cy) == [value |-> value, currency |-> cy]
PercentCell(change)    == IF change = Null THEN DashCell ELSE [pct |-> change.n]

NoResponse == [ok |-> FALSE, pending |-> TRUE]
NoCall     == "no call"

\* the panel as created from its HTML template
EmptyWidget ==
    [current |-> DashCell, lowest |-> DashCell, highest |-> DashCell,
     signal |-> Dash, vslowest |-> DashCell]

----------------------------------------------------------------------------
(* Operations of a page context *)

\* mutant: current is the last stored value of the currency, as in the superseded draft
trackAutoResponseFromHistory(map, location, price) ==
    LET summary == buildSummary(map, location, price.currency)
        history == SelectSeq(HistoryOf(map, getProductId(location, location)),
                             LAMBDA p : p.currency = price.currency)
    IN  [ok |-> TRUE,
         summary |-> IF summary = Null
                     THEN [current |-> price.value]
                     ELSE [lowest    |-> summary.lowest,
                           highest   |-> summary.highest,
                           currency  |-> summary.currency,
                           productId |-> summary.productId,
                           points    |-> summary.points,
                           canonical |-> summary.canonical,
                           current   |-> history[Len(history)].value]]

\* summary ? { ...summary, current: live.value } : { current: live.value }
trackAutoResponse(map, location, price) ==
    LET summary == buildSummary(map, location, price.currency)
    IN  [ok |-> TRUE,
         summary |-> IF summary = Null
                     THEN [current |-> price.value]
                     ELSE [lowest    |-> summary.lowest,
                           highest   |-> summary.highest,
                           currency  |-> summary.currency,
                           productId |-> summary.productId,
                           points    |-> summary.points,
                           canonical |-> summary.canonical,
                           current   |-> price.value]]

\* the rows renderPrice writes, given the live price and the map buildSummary read
renderPriceRows(rows, map, location, price) ==
    IF price = Null THEN [rows EXCEPT !.current = DashCell]
    ELSE LET summary == buildSummary(map, location, price.currency)
         IN  IF summary = Null
             THEN [current  |-> formatPrice(price.value, price.currency),
                   lowest   |-> DashCell,
                   highest  |-> DashCell,
                   signal   |-> Dash,
                   vslowest |-> DashCell]
             ELSE [current  |-> formatPrice(price.value, price.currency),
                   lowest   |-> formatPrice(summary.lowest, summary.currency),
                   highest  |-> formatPrice(summary.highest, summary.currency),
                   signal   |-> computeSignal(Num(price.value), Num(summary.lowest)),
                   vslowest |-> PercentCell(pctChange(Num(price.value), Num(summary.lowest)))]

\* TRACK_PRICE_AUTO: extraction, then either the error response or savePricePoint
TrackAuto(c, price) ==
    /\ pc[c] = "idle"
    /\ ops' = ops + 1
    /\ IF price = Null
       THEN /\ resp' = [resp EXCEPT ![c] = [ok |-> FALSE, error |-> "Could not find price on page."]]
            /\ UNCHANGED <<pc, live>>
       ELSE /\ resp' = [resp EXCEPT ![c] = NoResponse]
            /\ live' = [live EXCEPT ![c] = price]
            /\ pc' = [pc EXCEPT ![c] = "auto_get"]
    /\ UNCHANGED <<store, now, loc, all, widget, lastSignal, calls, sigVars, urlVars, extVars>>

\* the widget's Track button: extraction, then savePricePoint and renderPrice
TrackClick(c, price) ==
    /\ pc[c] = "idle"
    /\ ops' = ops + 1
    /\ IF price = Null
       THEN UNCHANGED <<pc, live>>
       ELSE /\ live' = [live EXCEPT ![c] = price]
            /\ pc' = [pc EXCEPT ![c] = "click_get"]
    /\ UNCHANGED <<store, now, loc, all, resp, widget, lastSignal, calls, sigVars, urlVars, extVars>>

\* savePricePoint up to the completion of `await getLocal(PRICE_HISTORY_KEY)`
SaveGet(c) ==
    /\ pc[c] \in {"auto_get", "click_get"}
    /\ all' = [all EXCEPT ![c] = store]
    /\ pc' = [pc EXCEPT ![c] = IF pc[c] = "auto_get" THEN "auto_set" ELSE "click_set"]
    /\ UNCHANGED <<store, now, loc, live, resp, widget, lastSignal, calls, ops, sigVars, urlVars, extVars>>

\* savePricePoint from the duplicate test to the completion of `await setLocal(...)`
SaveSet(c) ==
    /\ pc[c] \in {"auto_set", "click_set"}
    /\ store' = savePricePoint(all[c], live[c], loc[c], loc[c], now)
    /\ calls' = Append(calls,
                       [tab       |-> c,
                        productId |-> getProductId(loc[c], loc[c]),
                        value     |-> live[c].value,
                        currency  |-> live[c].currency,
                        t         |-> now,
                        pushed    |-> ~IsDuplicate(HistoryOf(all[c], getProductId(loc[c], loc[c])), live[c], now)])
    /\ all' = [all EXCEPT ![c] = EmptyMap]
    /\ pc' = [pc EXCEPT ![c] = IF pc[c] = "auto_set" THEN "auto_summary" ELSE "click_render"]
    /\ UNCHANGED <<now, loc, live, resp, widget, lastSignal, ops, sigVars, urlVars, extVars>>

\* TRACK_PRICE_AUTO after savePricePoint: buildSummary and sendResponse
AutoRespond(c) ==
    /\ pc[c] = "auto_summary"
    /\ resp' = [resp EXCEPT ![c] = trackAutoResponse(store, loc[c], live[c])]
    /\ live' = [live EXCEPT ![c] = Null]
    /\ pc' = [pc EXCEPT ![c] = "idle"]
    /\ UNCHANGED <<store, now, loc, all, widget, lastSignal, calls, ops, sigVars, urlVars, extVars>>

\* renderPrice up to `await buildSummary(live.currency)`: a fresh extraction
RenderExtract(c, price) ==
    /\ pc[c] = "click_render"
    /\ IF price = Null
       THEN /\ widget' = [widget EXCEPT ![c] = renderPriceRows(widget[c], store, loc[c], Null)]
            /\ live' = [live EXCEPT ![c] = Null]
            /\ pc' = [pc EXCEPT ![c] = "idle"]
       ELSE /\ widget' = [widget EXCEPT ![c].current = formatPrice(price.value, price.currency)]
            /\ live' = [live EXCEPT ![c] = price]
            /\ pc' = [pc EXCEPT ![c] = "click_summary"]
    /\ UNCHANGED <<store, now, loc, all, resp, lastSignal, calls, ops, sigVars, urlVars, extVars>>

\* renderPrice from the completion of buildSummary's read: the rows
RenderRows(c) ==
    /\ pc[c] = "click_summary"
    /\ widget' = [widget EXCEPT ![c] = renderPriceRows(widget[c], store, loc[c], live[c])]
    /\ lastSignal' = [lastSignal EXCEPT ![c] =
                         IF buildSummary(store, loc[c], live[c].currency) # Null
                         THEN renderPriceRows(widget[c], store, loc[c], live[c]).signal
                         ELSE lastSignal[c]]
    /\ live' = [live EXCEPT ![c] = Null]
    /\ pc' = [pc EXCEPT ![c] = "idle"]
    /\ UNCHANGED <<store, now, loc, all, resp, calls, ops, sigVars, urlVars, extVars>>

\* the clock advances
Tick ==
    /\ now + TickMs <= MaxTime
    /\ now' = now + TickMs
    /\ UNCHANGED <<store, loc, pc, live, all, resp, widget, lastSignal, calls, ops, sigVars, urlVars, extVars>>

----------------------------------------------------------------------------
(* Initial values of the variables a specification does not use *)

SigIdle == sigCurrent = Undefined /\ sigLowest = Undefined /\ sigOut = Null
UrlIdle == urlA = PageA /\ urlB = PageA /\ pidA = Null /\ pidB = Null /\ edits = {}
NotParsed == [pending |-> TRUE]
ParseIdle == text = << >> /\ parsed = NotParsed
NotExtracted == [pending |-> TRUE]
EmptyDocument == [elements |-> << >>, meta |-> << >>, jsonld |-> << >>, body |-> << >>]
PageIdle == doc = EmptyDocument /\ extracted = NotExtracted
AutoIdle == requests = 0 /\ sent = << >>
SelectIdle ==
    /\ selecting = FALSE
    /\ hintEl = FALSE
    /\ modeListeners = {}
    /\ keyListeners = 0
    /\ highlighted = {}
Co2Idle ==
    /\ co2Pc = "idle"
    /\ co2Payload = Null
    /\ co2Query = 0
    /\ co2Factor = Null
    /\ co2Requests = 0
    /\ co2Sent = << >>
SnapIdle ==
    /\ lastHref = Null
    /\ snapshot = Null
    /\ pendingWrites = << >>
    /\ navs = 0
NotifIdle ==
    /\ notifPayload = Undefined
    /\ alarm = Null
    /\ firing = 0
    /\ shown = << >>
    /\ scheduled = << >>
InjectIdle ==
    /\ script = "content.js"
    /\ evaluations = 0
    /\ injected = FALSE
    /\ widgets = 0
    /\ timers = 0
    /\ msgListeners = 0
    /\ docListeners = 0
HandlersIdle == AutoIdle /\ SelectIdle /\ Co2Idle /\ SnapIdle /\ NotifIdle /\ InjectIdle
ExtIdle == ParseIdle /\ PageIdle /\ HandlersIdle

StoreStart ==
    /\ store = EmptyMap
    /\ now = 0
    /\ pc = [c \in Tabs |-> "idle"]
    /\ live = [c \in Tabs |-> Null]
    /\ all = [c \in Tabs |-> EmptyMap]
    /\ resp = [c \in Tabs |-> NoResponse]
    /\ widget = [c \in Tabs |-> EmptyWidget]
    /\ lastSignal = [c \in Tabs |-> NoCall]
    /\ calls = << >>
    /\ ops = 0

----------------------------------------------------------------------------
(* Spec: one page context tracking prices *)

Init ==
    /\ StoreStart
    /\ ExtIdle
    /\ loc = [c \in Tabs |-> IF c = "t1" THEN PageATracked ELSE PageB]
    /\ SigIdle
    /\ UrlIdle

Next ==
    \/ ops < MaxOps /\ \E price \in LivePrices : TrackAuto("t1", price)
    \/ ops < MaxOps /\ \E price \in LivePrices : TrackClick("t1", price)
    \/ SaveGet("t1")
    \/ SaveSet("t1")
    \/ AutoRespond("t1")
    \/ \E price \in LivePrices : RenderExtract("t1", price)
    \/ RenderRows("t1")
    \/ Tick

Spec == Init /\ [][Next]_vars

----------------------------------------------------------------------------
(* SpecTabs: two page contexts answering TRACK_PRICE_AUTO concurrently *)

TabPrices ==
    { [value |-> 100, currency |-> "SEK"],
      [value |-> 103, currency |-> "SEK"] }

InitTabs ==
    /\ StoreStart
    /\ ExtIdle
    /\ loc \in [Tabs -> Pages]
    /\ loc["t1"] = PageA
    /\ SigIdle
    /\ UrlIdle

NextTabs ==
    \/ ops < MaxTabOps /\ \E c \in Tabs, price \in TabPrices : TrackAuto(c, price)
    \/ \E c \in Tabs : SaveGet(c)
    \/ \E c \in Tabs : SaveSet(c)
    \/ \E c \in Tabs : AutoRespond(c)
    \/ Tick

SpecTabs == InitTabs /\ [][NextTabs]_vars

----------------------------------------------------------------------------
(* SpecDedup: two page contexts, the first product already tracked once *)

FirstPrice == [value |-> 100, currency |-> "SEK"]

\* the state left by one completed savePricePoint of the first context at time 0
InitDedup ==
    /\ ExtIdle
    /\ loc \in [Tabs -> Pages]
    /\ loc["t1"] = PageA
    /\ SigIdle
    /\ UrlIdle
    /\ store = savePricePoint(EmptyMap, FirstPrice, loc["t1"], loc["t1"], 0)
    /\ calls = << [tab       |-> "t1",
                   productId |-> getProductId(loc["t1"], loc["t1"]),
                   value     |-> FirstPrice.value,
                   currency  |-> FirstPrice.currency,
                   t         |-> 0,
                   pushed    |-> TRUE] >>
    /\ now = 0
    /\ pc = [c \in Tabs |-> "idle"]
    /\ live = [c \in Tabs |-> Null]
    /\ all = [c \in Tabs |-> EmptyMap]
    /\ resp = [c \in Tabs |-> NoResponse]
    /\ widget = [c \in Tabs |-> EmptyWidget]
    /\ lastSignal = [c \in Tabs |-> NoCall]
    /\ ops = 0

SpecDedup == InitDedup /\ [][NextTabs]_vars

----------------------------------------------------------------------------
(* SpecCap: one page context tracking a long run of distinct prices, *)
(* one clock step after each operation                               *)

\* the price of the next operation, different from every earlier one
CapPrice == [value |-> 100 * (ops + 1), currency |-> "SEK"]

InitCap ==
    /\ StoreStart
    /\ ExtIdle
    /\ loc \in [Tabs -> {PageATracked, PageB}]
    /\ loc["t2"] = PageB
    /\ SigIdle
    /\ UrlIdle

CapTick ==
    /\ pc["t1"] = "idle"
    /\ now < ops * TickMs
    /\ now' = now + TickMs
    /\ UNCHANGED <<store, loc, pc, live, all, resp, widget, lastSignal, calls, ops, sigVars, urlVars, extVars>>

NextCap ==
    \/ ops < CapOps /\ now = ops * TickMs /\ TrackAuto("t1", CapPrice)
    \/ SaveGet("t1")
    \/ SaveSet("t1")
    \/ AutoRespond("t1")
    \/ CapTick

SpecCap == InitCap /\ [][NextCap]_vars

----------------------------------------------------------------------------
(* SpecSignal: the signal engine applied to a current and a lowest value *)

SigInputs == {Undefined} \cup {Num(k) : k \in 0..MaxPrice}

NotComputed == [computed |-> FALSE]

InitSig ==
    /\ StoreStart
    /\ ExtIdle
    /\ loc = [c \in Tabs |-> PageA]
    /\ UrlIdle
    /\ sigCurrent \in SigInputs
    /\ sigLowest \in SigInputs
    /\ sigOut = [content |-> NotComputed, popup |-> NotComputed, downloads |-> NotComputed]

\* renderPrice, lines 786-787: the content script's signal and change
ContentSignal ==
    /\ sigOut.content = NotComputed
    /\ sigOut' = [sigOut EXCEPT !.content =
                     [computed |-> TRUE,
                      signal   |-> computeSignal(sigCurrent, sigLowest),
                      change   |-> pctChange(sigCurrent, sigLowest)]]
    /\ UNCHANGED <<storeVars, sigCurrent, sigLowest, urlVars, extVars>>

\* popup.js renderSummary, lines 132-133: the popup's signal and change
PopupSignal ==
    /\ sigOut.popup = NotComputed
    /\ sigOut' = [sigOut EXCEPT !.popup =
                     [computed |-> TRUE,
                      signal   |-> popupComputeSignal(sigCurrent, sigLowest),
                      change   |-> pctChange(sigCurrent, sigLowest)]]
    /\ UNCHANGED <<storeVars, sigCurrent, sigLowest, urlVars, extVars>>

\* downloads popup.js renderSummary: the change against the lowest value
DownloadsChange ==
    /\ sigOut.downloads = NotComputed
    /\ sigOut' = [sigOut EXCEPT !.downloads =
                     [computed |-> TRUE,
                      change   |-> downloadsPctChange(sigCurrent, sigLowest)]]
    /\ UNCHANGED <<storeVars, sigCurrent, sigLowest, urlVars, extVars>>

NextSig == ContentSignal \/ PopupSignal \/ DownloadsChange

SpecSignal == InitSig /\ [][NextSig]_vars

----------------------------------------------------------------------------
(* SpecUrl: a URL and a copy of it whose tracking parameters are edited *)

EditKeys   == {"utm_source", "gclid", "ttclid", "utm_id"}
EditValues == {"x"}
VariantValues == {"a", "b"}

BaseQueries ==
    { << >>,
      << <<"variant", "a">> >>,
      << <<"variant", "a">>, <<"size", "m">> >>,
      << <<"utm_source", "x">>, <<"variant", "b">> >> }

InsertAt(query, i, pair) ==
    SubSeq(query, 1, i) \o <<pair>> \o SubSeq(query, i + 1, Len(query))

RemoveAt(query, i) ==
    SubSeq(query, 1, i - 1) \o SubSeq(query, i + 1, Len(query))

SwapAt(query, i) ==
    [j \in 1..Len(query) |->
        IF j = i THEN query[i + 1] ELSE IF j = i + 1 THEN query[i] ELSE query[j]]

InitUrl ==
    /\ StoreStart
    /\ ExtIdle
    /\ loc = [c \in Tabs |-> PageA]
    /\ SigIdle
    /\ urlA \in {[PageA EXCEPT !.query = q] : q \in BaseQueries}
    /\ urlB = urlA
    /\ pidA = Null
    /\ pidB = Null
    /\ edits = {}

\* a tracking parameter is added to the second URL
AddTracking(i, key, value) ==
    /\ Len(urlB.query) < MaxQuery
    /\ urlB' = [urlB EXCEPT !.query = InsertAt(urlB.query, i, <<key, value>>)]
    /\ edits' = edits \cup {key}
    /\ pidA' = Null /\ pidB' = Null
    /\ UNCHANGED <<storeVars, sigVars, urlA, extVars>>

\* a tracking parameter is removed from the second URL
RemoveTracking(i) ==
    /\ urlB.query[i][1] \in EditKeys
    /\ urlB' = [urlB EXCEPT !.query = RemoveAt(urlB.query, i)]
    /\ edits' = edits \cup {urlB.query[i][1]}
    /\ pidA' = Null /\ pidB' = Null
    /\ UNCHANGED <<storeVars, sigVars, urlA, extVars>>

\* a tracking parameter of the second URL changes place with its neighbour
MoveTracking(i) ==
    /\ urlB.query[i][1] \in EditKeys \/ urlB.query[i + 1][1] \in EditKeys
    /\ urlB.query[i] # urlB.query[i + 1]
    /\ urlB' = [urlB EXCEPT !.query = SwapAt(urlB.query, i)]
    /\ edits' = edits \cup ({urlB.query[i][1], urlB.query[i + 1][1]} \cap EditKeys)
    /\ pidA' = Null /\ pidB' = Null
    /\ UNCHANGED <<storeVars, sigVars, urlA, extVars>>

\* another value is selected for a parameter of the second URL that is not a tracking one
ChangeValue(i, value) ==
    /\ urlB.query[i][1] \notin EditKeys
    /\ urlB.query[i][2] # value
    /\ urlB' = [urlB EXCEPT !.query[i] = <<urlB.query[i][1], value>>]
    /\ edits' = edits \cup {urlB.query[i][1]}
    /\ pidA' = Null /\ pidB' = Null
    /\ UNCHANGED <<storeVars, sigVars, urlA, extVars>>

\* each URL is opened as a page and getProductId() runs there
Resolve ==
    /\ pidB = Null
    /\ pidA' = getProductId(urlA, urlA)
    /\ pidB' = getProductId(urlB, urlB)
    /\ UNCHANGED <<storeVars, sigVars, urlA, urlB, edits, extVars>>

NextUrl ==
    \/ \E i \in 0..Len(urlB.query), key \in EditKeys, value \in EditValues : AddTracking(i, key, value)
    \/ \E i \in 1..Len(urlB.query) : RemoveTracking(i)
    \/ \E i \in 1..(Len(urlB.query) - 1) : MoveTracking(i)
    \/ \E i \in 1..Len(urlB.query), value \in VariantValues : ChangeValue(i, value)
    \/ Resolve

SpecUrl == InitUrl /\ [][NextUrl]_vars

----------------------------------------------------------------------------
(* SpecParse: extractPriceFromText applied to a text *)

Tokens ==
    { <<"1">>, <<"2", "9", "9">>, <<"1", "4", "9">>, <<"0", "0">>, <<"5", "0">>,
      <<" ">>, <<",">>, <<".">>, <<"k", "r">>, <<"euro">>, <<"x">>,
      <<"/", "m", "aring", "n">>, <<"-", "5", "%">> }

\* the texts made of at most n tokens
RECURSIVE TokenTexts(_)
TokenTexts(n) ==
    IF n = 0 THEN { << >> }
    ELSE TokenTexts(n - 1) \cup { t \o k : t \in TokenTexts(n - 1), k \in Tokens }

Text149Comma  == <<"1", "4", "9", ",", "0", "0", " ", "k", "r">>
Text149Dot    == <<"1", "4", "9", ".", "0", "0", " ", "k", "r">>
Text1299Space == <<"1", " ", "2", "9", "9", " ", "k", "r">>
Text1299Mixed == <<"1", ".", "2", "9", "9", ",", "5", "0", " ", "k", "r">>
Text299Month  == <<"2", "9", "9", " ", "k", "r", "/", "m", "aring", "n">>
Text2999      == <<"2", "9", "9", "9", " ", "k", "r">>
Text149Upper  == <<"1", "4", "9", " ", "K", "R">>
TextSale      == <<"-", "5", "%", " ", "2", "9", "9", "k", "r", " ", "1", "4", "9", "k", "r">>
TextLongRun   == <<"1", "2", "2", "4", "5", "9", "9", " ", "k", "r">>

\* JSON-LD offers of 499 with priceCurrency SEK and EUR, and the texts built from them
OfferSek == [price |-> <<"4", "9", "9">>, currency |-> <<"S", "E", "K">>]
OfferEur == [price |-> <<"4", "9", "9">>, currency |-> <<"E", "U", "R">>]
Text499Euro == <<"4", "9", "9", " ", "euro">>

ExampleTexts ==
    { Text149Comma, Text149Dot, Text1299Space, Text1299Mixed, Text299Month,
      Text2999, Text149Upper, TextSale, TextLongRun,
      OfferText(OfferSek), OfferText(OfferEur), Text499Euro }

InitParse ==
    /\ StoreStart
    /\ loc = [c \in Tabs |-> PageA]
    /\ SigIdle
    /\ UrlIdle
    /\ PageIdle
    /\ HandlersIdle
    /\ text \in ExampleTexts \cup TokenTexts(MaxTokens)
    /\ parsed = NotParsed

\* a call of extractPriceFromText
ParseText ==
    /\ parsed = NotParsed
    /\ parsed' = extractPriceFromText(text)
    /\ UNCHANGED <<storeVars, sigVars, urlVars, text, pageVars, handlerVars>>

NextParse == ParseText

SpecParse == InitParse /\ [][NextParse]_vars

----------------------------------------------------------------------------
(* SpecPage: extractPriceFromPage applied to a document *)

Text499    == <<"4", "9", "9", " ", "k", "r">>
Text299    == <<"2", "9", "9", " ", "k", "r">>
Text1kr    == <<"1", " ", "k", "r">>
TextNoMark == <<"x">>
Text499Bare == <<"4", "9", "9">>

Element(t, visible, banned, inMain, dist, font) ==
    [text |-> t, visible |-> visible, banned |-> banned, inMain |-> inMain,
     dist |-> dist, font |-> font]

ElMain2999    == Element(Text2999,     TRUE,  FALSE, TRUE,  60, 20)
ElMonth299    == Element(Text299Month, TRUE,  FALSE, TRUE,  60, 35)
ElMain299     == Element(Text299,      TRUE,  FALSE, TRUE,  60, 20)
ElMain499     == Element(Text499,      TRUE,  FALSE, TRUE,  60, 20)
ElFar149      == Element(Text149Comma, TRUE,  FALSE, FALSE, 0,  0)
ElHidden2999  == Element(Text2999,     FALSE, FALSE, TRUE,  60, 35)
ElBanned149   == Element(Text149Comma, TRUE,  TRUE,  FALSE, 60, 35)
ElNoMark      == Element(TextNoMark,   TRUE,  FALSE, TRUE,  60, 35)
ElLow1        == Element(Text1kr,      TRUE,  FALSE, TRUE,  60, 35)
ElSale        == Element(TextSale,     TRUE,  FALSE, TRUE,  48, 20)

PageElements ==
    { ElMain2999, ElMonth299, ElMain299, ElMain499, ElFar149, ElHidden2999,
      ElBanned149, ElNoMark, ElLow1, ElSale }

MetaChoices == { << >>, <<Text499Bare>>, <<Text499Bare, Text149Comma>> }

LdChoices ==
    { << >>,
      << [price |-> Text499Bare, currency |-> <<"S", "E", "K">>] >>,
      << [price |-> TextNoMark, currency |-> << >>], [price |-> <<"2", "9", "9">>, currency |-> << >>] >> }

BodyChoices == { << >>, TextNoMark, Text2999 }

SeqsUpTo(S, n) == UNION { [1..k -> S] : k \in 0..n }

InitPage ==
    /\ StoreStart
    /\ loc = [c \in Tabs |-> PageA]
    /\ SigIdle
    /\ UrlIdle
    /\ ParseIdle
    /\ HandlersIdle
    /\ doc \in [elements : SeqsUpTo(PageElements, MaxElements), meta : MetaChoices,
                  jsonld : LdChoices, body : BodyChoices]
    /\ extracted = NotExtracted

\* what a call computes: the DOM candidates, the two best candidates, the result
Extraction(domCands, metaBest, body) ==
    [domCands |-> domCands,
     domBest  |-> pickBest(domCands),
     metaBest |-> metaBest,
     result   |-> extractPriceFromPage(pickBest(domCands), metaBest, body)]

\* a call of extractPriceFromPage
ExtractFromPage ==
    /\ extracted = NotExtracted
    /\ extracted' = Extraction(collectCandidates(doc.elements), tryExtractFromMetaAndLdJson(doc), doc.body)
    /\ UNCHANGED <<storeVars, sigVars, urlVars, parseVars, handlerVars, doc>>

NextPage == ExtractFromPage

SpecPage == InitPage /\ [][NextPage]_vars

----------------------------------------------------------------------------
(* SpecAuto: TRACK_PRICE_AUTO requests of the popup, with a storage area whose
   reads and writes can be rejected *)

InitAuto ==
    /\ StoreStart
    /\ ExtIdle
    /\ loc = [c \in Tabs |-> PageA]
    /\ SigIdle
    /\ UrlIdle

\* sendResponse(r) for the request being handled
SendResponse(r) == sent' = Append(sent, [request |-> requests, response |-> r])

\* the message arrives: extraction, then the error response or the start of savePricePoint
AutoRequest(c, price) ==
    /\ pc[c] = "idle"
    /\ requests' = requests + 1
    /\ IF price = Null
       THEN /\ resp' = [resp EXCEPT ![c] = [ok |-> FALSE, error |-> "Could not find price on page."]]
            /\ sent' = Append(sent, [request |-> requests + 1, response |-> resp'[c]])
            /\ UNCHANGED <<pc, live>>
       ELSE /\ resp' = [resp EXCEPT ![c] = NoResponse]
            /\ live' = [live EXCEPT ![c] = price]
            /\ pc' = [pc EXCEPT ![c] = "auto_get"]
            /\ UNCHANGED sent
    /\ UNCHANGED <<store, now, loc, all, widget, lastSignal, calls, ops, sigVars, urlVars, parseVars, pageVars, selectVars, co2Vars, snapVars, notifVars, injectVars>>

\* the rejection of an awaited storage promise ends the handler's async function
AutoRejected(c) ==
    /\ pc' = [pc EXCEPT ![c] = "idle"]
    /\ live' = [live EXCEPT ![c] = Null]
    /\ all' = [all EXCEPT ![c] = EmptyMap]
    /\ UNCHANGED <<store, calls, resp, sent>>

\* `await getLocal(PRICE_HISTORY_KEY)` of savePricePoint settles
AutoRead(c, resolved) ==
    /\ pc[c] = "auto_get"
    /\ IF resolved
       THEN /\ all' = [all EXCEPT ![c] = store]
            /\ pc' = [pc EXCEPT ![c] = "auto_set"]
            /\ UNCHANGED <<store, live, calls, resp, sent>>
       ELSE AutoRejected(c)
    /\ UNCHANGED <<now, loc, widget, lastSignal, ops, requests, sigVars, urlVars, parseVars, pageVars, selectVars, co2Vars, snapVars, notifVars, injectVars>>

\* `await setLocal(PRICE_HISTORY_KEY, ...)` of savePricePoint settles
AutoWrite(c, resolved) ==
    /\ pc[c] = "auto_set"
    /\ IF resolved
       THEN /\ store' = savePricePoint(all[c], live[c], loc[c], loc[c], now)
            /\ calls' = Append(calls,
                               [tab       |-> c,
                                productId |-> getProductId(loc[c], loc[c]),
                                value     |-> live[c].value,
                                currency  |-> live[c].currency,
                                t         |-> now,
                                pushed    |-> ~IsDuplicate(HistoryOf(all[c], getProductId(loc[c], loc[c])), live[c], now)])
            /\ all' = [all EXCEPT ![c] = EmptyMap]
            /\ pc' = [pc EXCEPT ![c] = "auto_summary"]
            /\ UNCHANGED <<live, resp, sent>>
       ELSE AutoRejected(c)
    /\ UNCHANGED <<now, loc, widget, lastSignal, ops, requests, sigVars, urlVars, parseVars, pageVars, selectVars, co2Vars, snapVars, notifVars, injectVars>>

\* the read of buildSummary settles; on success the summary is sent
AutoSummary(c, resolved) ==
    /\ pc[c] = "auto_summary"
    /\ IF resolved
       THEN /\ resp' = [resp EXCEPT ![c] = trackAutoResponse(store, loc[c], live[c])]
            /\ SendResponse(resp'[c])
            /\ live' = [live EXCEPT ![c] = Null]
            /\ pc' = [pc EXCEPT ![c] = "idle"]
            /\ UNCHANGED <<store, all, calls>>
       ELSE AutoRejected(c)
    /\ UNCHANGED <<now, loc, widget, lastSignal, ops, requests, sigVars, urlVars, parseVars, pageVars, selectVars, co2Vars, snapVars, notifVars, injectVars>>

NextAuto ==
    \/ requests < MaxRequests /\ \E price \in LivePrices : AutoRequest("t1", price)
    \/ \E resolved \in BOOLEAN : AutoRead("t1", resolved)
    \/ \E resolved \in BOOLEAN : AutoWrite("t1", resolved)
    \/ \E resolved \in BOOLEAN : AutoSummary("t1", resolved)
    \/ Tick

SpecAuto == InitAuto /\ [][NextAuto]_vars

----------------------------------------------------------------------------
(* SpecSelect: the select-price mode started by the popup *)

\* what the extraction of a click or of a render can give
PickPrices == { Null, [value |-> 100, currency |-> "SEK"] }

\* the elements the pointer can be over
Targets == {"price", "title"}

\* the listeners SELECT_PRICE_MODE adds to document; adding a registered one again
\* has no effect
MODE_LISTENERS == {"mouseover", "mouseout", "click"}

InitSelect ==
    /\ StoreStart
    /\ ExtIdle
    /\ loc = [c \in Tabs |-> PageA]
    /\ SigIdle
    /\ UrlIdle

\* the SELECT_PRICE_MODE message
SelectPriceMode(c) ==
    /\ selecting' = TRUE
    /\ hintEl' = TRUE
    /\ modeListeners' = modeListeners \cup MODE_LISTENERS
    /\ keyListeners' = keyListeners + 1
    /\ resp' = [resp EXCEPT ![c] = [ok |-> TRUE]]
    /\ UNCHANGED <<store, now, loc, pc, live, all, widget, lastSignal, calls, ops, highlighted,
                   sigVars, urlVars, parseVars, pageVars, autoVars, co2Vars, snapVars, notifVars, injectVars>>

\* a mouseover event on element t, seen by onMouseOver
MouseOver(t) ==
    /\ "mouseover" \in modeListeners
    /\ selecting
    /\ highlighted' = highlighted \cup {t}
    /\ UNCHANGED <<storeVars, sigVars, urlVars, parseVars, pageVars, autoVars, co2Vars, snapVars, notifVars, injectVars,
                   selecting, hintEl, modeListeners, keyListeners>>

\* a mouseout event on element t, seen by onMouseOut
MouseOut(t) ==
    /\ "mouseout" \in modeListeners
    /\ highlighted' = highlighted \ {t}
    /\ UNCHANGED <<storeVars, sigVars, urlVars, parseVars, pageVars, autoVars, co2Vars, snapVars, notifVars, injectVars,
                   selecting, hintEl, modeListeners, keyListeners>>

\* the three removeEventListener calls of onClickPick and of onKey
RemoveModeListeners(listeners) == listeners \ MODE_LISTENERS

\* a click on an element, seen by onClickPick, up to the start of savePricePoint;
\* price is what was extracted from the element's text or else from the page
ClickPick(c, price) ==
    /\ "click" \in modeListeners
    /\ selecting
    /\ pc[c] = "idle"
    /\ selecting' = FALSE
    /\ modeListeners' = RemoveModeListeners(modeListeners)
    /\ hintEl' = FALSE
    /\ ops' = ops + 1
    /\ IF price = Null
       THEN UNCHANGED <<pc, live>>
       ELSE /\ live' = [live EXCEPT ![c] = price]
            /\ pc' = [pc EXCEPT ![c] = "click_get"]
    /\ UNCHANGED <<store, now, loc, all, resp, widget, lastSignal, calls, keyListeners, highlighted,
                   sigVars, urlVars, parseVars, pageVars, autoVars, co2Vars, snapVars, notifVars, injectVars>>

\* a keydown event with key Escape: every registered onKey closure runs
EscapeKey ==
    /\ keyListeners > 0
    /\ selecting' = FALSE
    /\ modeListeners' = RemoveModeListeners(modeListeners)
    /\ keyListeners' = 0
    /\ hintEl' = FALSE
    /\ UNCHANGED <<storeVars, sigVars, urlVars, parseVars, pageVars, autoVars, co2Vars, snapVars, notifVars, injectVars, highlighted>>

NextSelect ==
    \/ keyListeners < MaxKeyListeners /\ SelectPriceMode("t1")
    \/ \E t \in Targets : MouseOver(t)
    \/ \E t \in Targets : MouseOut(t)
    \/ ops < MaxOps /\ \E price \in PickPrices : ClickPick("t1", price)
    \/ EscapeKey
    \/ SaveGet("t1")
    \/ SaveSet("t1")
    \/ \E price \in PickPrices : RenderExtract("t1", price)
    \/ RenderRows("t1")
    \/ Tick

SpecSelect == InitSelect /\ [][NextSelect]_vars

----------------------------------------------------------------------------
(* SpecCo2: CO2_ESTIMATE_REQUEST messages and the two Climatiq calls *)

QUERY_COUNT == 3

\* String(x).toLowerCase() of the unit types of the modelled factors
LowerCase(unitType) ==
    CASE unitType = "Weight" -> "weight"
      [] unitType = "WEIGHT" -> "weight"
      [] unitType = "Volume" -> "volume"
      [] OTHER -> unitType

FactorWeight == [id |-> "f-weight", name |-> "Cotton", unit_type |-> "Weight"]
FactorUpper  == [id |-> "f-upper",  name |-> "Cotton yarn", unit_type |-> "WEIGHT"]
FactorVolume == [id |-> "f-volume", name |-> "Cotton dye", unit_type |-> "Volume"]
FactorNoId   == [id |-> "", name |-> "Draft", unit_type |-> "Volume"]

\* msg.payload: absent, or {material, weightKg}
NoPayload == Undefined
Payloads == { NoPayload, [material |-> "cotton", weightKg |-> 1] }

\* how `fetch` and `res.json()` of a Climatiq call can end
Rejected  == [kind |-> "rejected", message |-> "Failed to fetch"]
HttpError(status, data) == [kind |-> "http", status |-> status, data |-> data]
HttpOk(data) == [kind |-> "ok", data |-> data]

ErrorBody == [error |-> [message |-> "Quota exceeded"]]

SearchOutcomes ==
    { Rejected, HttpError(401, Null), HttpError(429, ErrorBody), HttpOk(Null) }
    \cup { HttpOk([results |-> r]) :
              r \in { << >>, <<FactorVolume>>, <<FactorVolume, FactorWeight>>,
                      <<FactorUpper>>, <<FactorNoId>> } }

Estimate == [co2e |-> 5, co2e_unit |-> "kg"]
EstimateOutcomes ==
    { Rejected, HttpError(400, Null), HttpError(400, ErrorBody), HttpOk(Null), HttpOk(Estimate) }

\* data?.error?.message || `${step} HTTP ${res.status}`
HttpMessage(step, outcome) ==
    IF outcome.data # Null THEN outcome.data.error.message
    ELSE <<step, "HTTP", outcome.status>>

\* pickBestWeightFactor(searchResults)
pickBestWeightFactor(searchResults) ==
    LET results == IF searchResults = Null THEN << >> ELSE searchResults.results
        weight  == { i \in 1..Len(results) : LowerCase(results[i].unit_type) = "weight" }
    IN  IF weight # {}
        THEN results[CHOOSE i \in weight : \A j \in weight : i <= j]
        ELSE IF Len(results) > 0 THEN results[1] ELSE Null

\* factor?.id is truthy
HasId(factor) == factor # Null /\ factor.id # ""

\* mutant: the handler has no catch block
NoCatch(message) == << >>

\* catch (e) { sendResponse({ ok: false, error: String(e?.message || e) }) }
Catch(message) == << [ok |-> FALSE, error |-> message] >>

\* the handler ends at `step`, having made these sendResponse calls
Co2End(k, step, responses) ==
    /\ co2Sent' = co2Sent \o [i \in 1..Len(responses) |->
                                 [request |-> k, step |-> step, response |-> responses[i]]]
    /\ co2Pc' = "idle"
    /\ co2Payload' = Null
    /\ co2Query' = 0
    /\ co2Factor' = Null

InitCo2 ==
    /\ StoreStart
    /\ ExtIdle
    /\ loc = [c \in Tabs |-> PageA]
    /\ SigIdle
    /\ UrlIdle

\* the message arrives; destructuring an absent payload throws a TypeError
Co2Request(payload) ==
    /\ co2Pc = "idle"
    /\ co2Requests' = co2Requests + 1
    /\ IF payload = NoPayload
       THEN Co2End(co2Requests + 1, "payload", Catch("Cannot destructure property 'material' of 'msg.payload'"))
       ELSE /\ co2Payload' = payload
            /\ co2Query' = 1
            /\ co2Pc' = "search"
            /\ UNCHANGED <<co2Factor, co2Sent>>
    /\ UNCHANGED <<storeVars, sigVars, urlVars, parseVars, pageVars, autoVars, selectVars, snapVars, notifVars, injectVars>>

\* `await climatiqSearch(q)` settles, and the loop goes on, ends or throws
SearchSettles(outcome) ==
    /\ co2Pc = "search"
    /\ IF outcome.kind = "rejected" THEN Co2End(co2Requests, "search", Catch(outcome.message))
       ELSE IF outcome.kind = "http" THEN Co2End(co2Requests, "search", Catch(HttpMessage("Search", outcome)))
       ELSE LET factor == pickBestWeightFactor(outcome.data)
            IN  IF HasId(factor) /\ LowerCase(factor.unit_type) = "weight"
                THEN /\ co2Factor' = factor
                     /\ co2Pc' = "estimate"
                     /\ UNCHANGED <<co2Payload, co2Query, co2Sent>>
                ELSE IF co2Query < QUERY_COUNT
                THEN /\ co2Factor' = factor
                     /\ co2Query' = co2Query + 1
                     /\ UNCHANGED <<co2Pc, co2Payload, co2Sent>>
                ELSE IF ~HasId(factor)
                THEN Co2End(co2Requests, "search", Catch("No emission factor found."))
                ELSE /\ co2Factor' = factor
                     /\ co2Pc' = "estimate"
                     /\ UNCHANGED <<co2Payload, co2Query, co2Sent>>
    /\ UNCHANGED <<co2Requests, storeVars, sigVars, urlVars, parseVars, pageVars, autoVars, selectVars, snapVars, notifVars, injectVars>>

\* `await climatiqEstimateWeight(factor.id, weightKg)` settles; a body that is not JSON
\* makes `estimate` null and reading estimate.co2e throws a TypeError
EstimateSettles(outcome) ==
    /\ co2Pc = "estimate"
    /\ IF outcome.kind = "rejected" THEN Co2End(co2Requests, "estimate", Catch(outcome.message))
       ELSE IF outcome.kind = "http" THEN Co2End(co2Requests, "estimate", Catch(HttpMessage("Estimate", outcome)))
       ELSE IF outcome.data = Null
       THEN Co2End(co2Requests, "estimate", Catch("Cannot read properties of null (reading 'co2e')"))
       ELSE Co2End(co2Requests, "done", << [ok |-> TRUE,
                               result |-> [co2e        |-> outcome.data.co2e,
                                           co2e_unit   |-> outcome.data.co2e_unit,
                                           factor_name |-> co2Factor.name,
                                           unit_type   |-> co2Factor.unit_type]] >>)
    /\ UNCHANGED <<co2Requests, storeVars, sigVars, urlVars, parseVars, pageVars, autoVars, selectVars, snapVars, notifVars, injectVars>>

NextCo2 ==
    \/ co2Requests < MaxCo2Requests /\ \E payload \in Payloads : Co2Request(payload)
    \/ \E outcome \in SearchOutcomes : SearchSettles(outcome)
    \/ \E outcome \in EstimateOutcomes : EstimateSettles(outcome)

SpecCo2 == InitCo2 /\ [][NextCo2]_vars

----------------------------------------------------------------------------
(* SpecSnap: the product snapshot of a page that navigates without reloading *)

\* DEFAULT_WEIGHT_KG, in hundredths of a kilogram
DEFAULT_WEIGHT_KG == [tshirt |-> 18, jeans |-> 70, hoodie |-> 60, dress |-> 35, unknown |-> 30]

\* what detectCategory and detectMaterial find on the page behind a URL: /p/1 is a
\* t-shirt that names no material (null), /p/2 is a pair of polyester jeans
PageCategory(url) == IF url.path = "/p/2" THEN "jeans" ELSE "tshirt"
PageMaterial(url) == IF url.path = "/p/2" THEN [name |-> "polyester"] ELSE Null

\* the payload saveCurrentProductSnapshot builds for a URL: its identity fields, and
\* the category, material and weight it detects
SnapshotOf(url) ==
    [url          |-> url,
     canonicalUrl |-> canonicalUrl(url),
     productId    |-> getProductId(url, url),
     category     |-> PageCategory(url),
     material     |-> IF PageMaterial(url) = Null THEN "cotton" ELSE PageMaterial(url).name,
     weightKg     |-> DEFAULT_WEIGHT_KG[PageCategory(url)]]

\* chrome.storage.local.set({ LAST_PRODUCT_SNAPSHOT: payload })
WriteSlot(slot, payload) == payload

\* saveCurrentProductSnapshot() up to its `await setLocal(...)`
SaveSnapshot(url) == pendingWrites' = Append(pendingWrites, SnapshotOf(url))

\* the content script has run: the first snapshot is being written, the poll is armed;
\* the slot is empty or holds the snapshot of an earlier page
InitSnap ==
    /\ StoreStart
    /\ ParseIdle /\ PageIdle /\ AutoIdle /\ SelectIdle /\ Co2Idle /\ NotifIdle /\ InjectIdle
    /\ loc = [c \in Tabs |-> PageATracked]
    /\ SigIdle
    /\ UrlIdle
    /\ lastHref = loc["t1"]
    /\ snapshot \in {Null, SnapshotOf(PageB)}
    /\ pendingWrites = <<SnapshotOf(loc["t1"])>>
    /\ navs = 0

\* the page changes its URL (history.pushState and the like)
Navigate(c, url) ==
    /\ url # loc[c]
    /\ loc' = [loc EXCEPT ![c] = url]
    /\ navs' = navs + 1
    /\ UNCHANGED <<store, now, pc, live, all, resp, widget, lastSignal, calls, ops,
                   sigVars, urlVars, parseVars, pageVars, autoVars, selectVars, co2Vars, notifVars, injectVars,
                   lastHref, snapshot, pendingWrites>>

\* one tick of the interval timer, the panel being closed
PollTick(c) ==
    /\ IF loc[c] # lastHref
       THEN /\ lastHref' = loc[c]
            /\ SaveSnapshot(loc[c])
       ELSE UNCHANGED <<lastHref, pendingWrites>>
    /\ UNCHANGED <<storeVars, sigVars, urlVars, parseVars, pageVars, autoVars, selectVars, co2Vars, notifVars, injectVars,
                   snapshot, navs>>

\* the Refresh button, up to the write of its snapshot
RefreshClick(c) ==
    /\ SaveSnapshot(loc[c])
    /\ UNCHANGED <<storeVars, sigVars, urlVars, parseVars, pageVars, autoVars, selectVars, co2Vars, notifVars, injectVars,
                   lastHref, snapshot, navs>>

\* the storage area completes the oldest pending write
WriteDone ==
    /\ pendingWrites # << >>
    /\ snapshot' = WriteSlot(snapshot, Head(pendingWrites))
    /\ pendingWrites' = Tail(pendingWrites)
    /\ UNCHANGED <<storeVars, sigVars, urlVars, parseVars, pageVars, autoVars, selectVars, co2Vars, notifVars, injectVars,
                   lastHref, navs>>

NextSnap ==
    \/ navs < MaxNavs /\ \E url \in Pages : Navigate("t1", url)
    \/ PollTick("t1")
    \/ Len(pendingWrites) < MaxPending /\ RefreshClick("t1")
    \/ WriteDone

SpecSnap == InitSnap /\ [][NextSnap]_vars

----------------------------------------------------------------------------
(* SpecEstimate: the Estimate button of one page's widget, another tab sharing the
   storage area.  The first context stays on its URL; the second navigates and
   saves its own snapshots. *)

\* the payload of the CO2_ESTIMATE_REQUEST built from a stored snapshot
EstimatePayload(snap) == [material |-> snap.material, weightKg |-> snap.weightKg]

\* the page of the first context has written its snapshot; the other tab shows /p/2
InitEstimate ==
    /\ StoreStart
    /\ ParseIdle /\ PageIdle /\ AutoIdle /\ SelectIdle /\ Co2Idle /\ NotifIdle /\ InjectIdle
    /\ loc = [c \in Tabs |-> IF c = "t1" THEN PageATracked ELSE PageB]
    /\ SigIdle
    /\ UrlIdle
    /\ lastHref = loc["t1"]
    /\ snapshot = SnapshotOf(loc["t1"])
    /\ pendingWrites = << >>
    /\ navs = 0

\* the click handler of the Estimate button: it reads LAST_PRODUCT_SNAPSHOT and, when
\* there is one, sends its material and weight
EstimateClick(c) ==
    /\ IF snapshot = Null
       THEN UNCHANGED <<co2Payload, co2Requests>>
       ELSE /\ co2Payload' = EstimatePayload(snapshot)
            /\ co2Requests' = co2Requests + 1
    /\ UNCHANGED <<storeVars, sigVars, urlVars, parseVars, pageVars, autoVars, selectVars,
                   co2Pc, co2Query, co2Factor, co2Sent, snapVars, notifVars, injectVars>>

NextEstimate ==
    \/ navs < MaxNavs /\ \E url \in Pages : Navigate("t2", url)
    \/ \E c \in Tabs : Len(pendingWrites) < MaxPending /\ RefreshClick(c)
    \/ WriteDone
    \/ co2Requests < MaxCo2Requests /\ EstimateClick("t1")

SpecEstimate == InitEstimate /\ [][NextEstimate]_vars

----------------------------------------------------------------------------
(* SpecNotify: SCHEDULE_NOTIFICATION requests, the one named alarm and the one
   stored payload of the popup script *)

\* number of SCHEDULE_NOTIFICATION requests
MaxSchedules == 2

\* a || b for strings: the empty string is falsy, as an absent field is
OrElse(a, b) == IF a = "" THEN b ELSE a

DefaultTitle   == "Price Predictor"
DefaultMessage == "10 sek har gatt"
DefaultPing    == "Ping"

\* the messages sent: one that names nothing, two that name everything
ScheduleMessages ==
    { [title |-> "", message |-> "", delaySeconds |-> Undefined],
      [title |-> "Price drop", message |-> "Look again", delaySeconds |-> Num(40)],
      [title |-> "CO2", message |-> "Estimate ready", delaySeconds |-> Num(10)] }

\* Number(msg.delaySeconds ?? 10)
DelaySeconds(msg) == IF msg.delaySeconds = Undefined THEN 10 ELSE msg.delaySeconds.n

\* the NOTIF_PAYLOAD the listener stores for a message
NotifPayloadOf(msg) ==
    [title   |-> OrElse(msg.title, DefaultTitle),
     message |-> OrElse(msg.message, DefaultMessage)]

\* chrome.alarms.create(NOTIF_ALARM_NAME, {when}): an alarm of that name, if there
\* is one, is replaced
CreateAlarm(old, when) == [when |-> when]

\* showNotification(title, message) at the present time
showNotification(payload) ==
    [title   |-> IF payload = Undefined THEN DefaultTitle ELSE OrElse(payload.title, DefaultTitle),
     message |-> IF payload = Undefined THEN DefaultPing ELSE OrElse(payload.message, DefaultPing),
     at      |-> now]

InitNotify ==
    /\ StoreStart
    /\ ExtIdle
    /\ loc = [c \in Tabs |-> PageA]
    /\ SigIdle
    /\ UrlIdle

\* the listener of SCHEDULE_NOTIFICATION
ScheduleNotification(msg) ==
    /\ notifPayload' = NotifPayloadOf(msg)
    /\ alarm' = CreateAlarm(alarm, now + DelaySeconds(msg) * 1000)
    /\ scheduled' = Append(scheduled,
                           [msg      |-> msg,
                            at       |-> now,
                            response |-> [ok |-> TRUE,
                                          scheduledFor |-> now + DelaySeconds(msg) * 1000]])
    /\ UNCHANGED <<storeVars, sigVars, urlVars, parseVars, pageVars, autoVars, selectVars, co2Vars,
                   snapVars, injectVars, firing, shown>>

\* the alarm goes off, at its time or later: the onAlarm listener starts and awaits
\* chrome.storage.local.get("NOTIF_PAYLOAD")
AlarmFires ==
    /\ alarm # Null
    /\ alarm.when <= now
    /\ alarm' = Null
    /\ firing' = firing + 1
    /\ UNCHANGED <<storeVars, sigVars, urlVars, parseVars, pageVars, autoVars, selectVars, co2Vars,
                   snapVars, injectVars, notifPayload, shown, scheduled>>

\* the read completes and the notification is created
AlarmShows ==
    /\ firing > 0
    /\ firing' = firing - 1
    /\ shown' = Append(shown, showNotification(notifPayload))
    /\ UNCHANGED <<storeVars, sigVars, urlVars, parseVars, pageVars, autoVars, selectVars, co2Vars,
                   snapVars, injectVars, notifPayload, alarm, scheduled>>

NextNotify ==
    \/ Len(scheduled) < MaxSchedules /\ \E msg \in ScheduleMessages : ScheduleNotification(msg)
    \/ AlarmFires
    \/ AlarmShows
    \/ Tick

SpecNotify == InitNotify /\ [][NextNotify]_vars

----------------------------------------------------------------------------
(* SpecInject: the content script evaluated several times in one page.  All the
   evaluations share one window and one global scope. *)

\* number of evaluations
MaxEvaluations == 3

\* the two content scripts: content.js is the guarded function followed by
\* statements at the top level, part_001 is the guarded function alone
Scripts == {"content.js", "part_001"}

\* the top level of the script declares const and let names (downloadExt, pageId,
\* clickCounter): evaluating it again in the same global scope is rejected with a
\* SyntaxError before any statement runs
Redeclares(file, count) == file = "content.js" /\ count > 0

\* mutant: the guard is not tested
NeverInjected(flag) == FALSE

\* if (window.__PRICE_CO2_WIDGET__) return;
AlreadyInjected(flag) == flag

\* document.addEventListener("pointerdown", ...) after the guarded function
TrailingListeners(file) == IF file = "content.js" THEN 1 ELSE 0

InitInject ==
    /\ StoreStart
    /\ ParseIdle /\ PageIdle /\ AutoIdle /\ SelectIdle /\ Co2Idle /\ SnapIdle /\ NotifIdle
    /\ loc = [c \in Tabs |-> PageATracked]
    /\ SigIdle
    /\ UrlIdle
    /\ script \in Scripts
    /\ evaluations = 0
    /\ injected = FALSE
    /\ widgets = 0
    /\ timers = 0
    /\ msgListeners = 0
    /\ docListeners = 0

\* one evaluation of the script in the page of context c
Evaluate(c) ==
    /\ evaluations' = evaluations + 1
    /\ IF Redeclares(script, evaluations)
       THEN UNCHANGED <<injected, widgets, timers, msgListeners, docListeners, lastHref, pendingWrites>>
       ELSE /\ IF AlreadyInjected(injected)
               THEN UNCHANGED <<injected, widgets, timers, msgListeners, lastHref, pendingWrites>>
               ELSE /\ injected' = TRUE
                    /\ widgets' = widgets + 1
                    /\ SaveSnapshot(loc[c])
                    /\ lastHref' = loc[c]
                    /\ timers' = timers + 1
                    /\ msgListeners' = msgListeners + 1
            /\ docListeners' = docListeners + TrailingListeners(script)
    /\ UNCHANGED <<storeVars, sigVars, urlVars, parseVars, pageVars, autoVars, selectVars, co2Vars,
                   notifVars, snapshot, navs, script>>

NextInject ==
    \/ evaluations < MaxEvaluations /\ Evaluate("t1")
    \/ navs < MaxNavs /\ \E url \in Pages : Navigate("t1", url)
    \/ timers > 0 /\ PollTick("t1")
    \/ WriteDone

SpecInject == InitInject /\ [][NextInject]_vars

----------------------------------------------------------------------------
(* SpecPrice: parsePrice of the first content script.  Its values are counted in
   thousandths, since a number can end in a group of three digits after the
   rightmost separator. *)

\* text.trim() from the left and from the right
RECURSIVE TrimStart(_)
TrimStart(str) == IF str # << >> /\ IsSpace(Head(str)) THEN TrimStart(Tail(str)) ELSE str

RECURSIVE TrimEnd(_)
TrimEnd(str) ==
    IF str # << >> /\ IsSpace(str[Len(str)]) THEN TrimEnd(SubSeq(str, 1, Len(str) - 1)) ELSE str

Trim(str) == TrimEnd(TrimStart(str))

\* some position of t starts the word (case ignored)
Includes(t, word) ==
    \E i \in 1..Len(t) : \A k \in 1..Len(word) : CharAt(t, i + k - 1) = word[k]

\* the currency detection of parsePrice; over Alphabet usd, the pound sign and gbp
\* cannot occur
DetectCurrency(t) ==
    IF Includes(t, <<"k", "r">>) \/ Includes(t, <<"s", "e", "k">>) THEN "SEK"
    ELSE IF Includes(t, <<"euro">>) \/ Includes(t, <<"e", "u", "r">>) THEN "EUR"
    ELSE IF Includes(t, <<"$">>) THEN "USD"
    ELSE Null

\* ([ .,\u00A0]\d{3})* from position j: the position after the last group
RECURSIVE GroupsEnd(_, _)
GroupsEnd(t, j) ==
    IF CharAt(t, j) \in {" ", ".", ","} /\ DigitRun(t, j + 1) >= 3
    THEN GroupsEnd(t, j + 4)
    ELSE j

\* ([.,]\d{2})? from position j: the position after it
DecimalsEnd(t, j) ==
    IF CharAt(t, j) \in {".", ","} /\ DigitRun(t, j + 1) >= 2 THEN j + 3 ELSE j

\* the match of /(\d{1,3}([ .,\u00A0]\d{3})*|\d+)([.,]\d{2})?/ starting at digit i: the
\* first alternative matches wherever a digit stands, so the second is never tried
NumberChunk(t, i) ==
    SubSeq(t, i, DecimalsEnd(t, GroupsEnd(t, i + Min2(3, DigitRun(t, i)))) - 1)

\* lastIndexOf as a position, 0 when absent
LastIndexOf(str, ch) ==
    IF \E i \in 1..Len(str) : str[i] = ch
    THEN CHOOSE i \in 1..Len(str) : str[i] = ch /\ \A j \in (i + 1)..Len(str) : str[j] # ch
    ELSE 0

\* str.replace(from, to) with a string pattern: the first occurrence only
ReplaceFirst(str, from, to) ==
    IF \E i \in 1..Len(str) : str[i] = from
    THEN LET first == CHOOSE i \in 1..Len(str) :
                          str[i] = from /\ \A j \in 1..(i - 1) : str[j] # from
         IN  [str EXCEPT ![first] = to]
    ELSE str

\* str.replace(/[...]/g, ""): every character of the set removed
RemoveAll(str, chars) == SelectSeq(str, LAMBDA ch : ch \notin chars)

\* /[,.](\d{2})$/.test(str) for the separator sep
EndsWithTwoDecimals(str, sep) ==
    /\ Len(str) >= 3
    /\ str[Len(str) - 2] = sep
    /\ IsDigit(str[Len(str) - 1]) /\ IsDigit(str[Len(str)])

\* the separator rule of parsePrice applied to the chunk without white space
ApplySeparatorRule(numStr) ==
    LET hasDot   == \E i \in 1..Len(numStr) : numStr[i] = "."
        hasComma == \E i \in 1..Len(numStr) : numStr[i] = ","
    IN  IF hasDot /\ hasComma
        THEN LET decPos == Max2(LastIndexOf(numStr, "."), LastIndexOf(numStr, ","))
             IN  RemoveAll(SubSeq(numStr, 1, decPos - 1), {".", ","})
                    \o <<".">> \o SubSeq(numStr, decPos + 1, Len(numStr))
        ELSE IF hasComma
        THEN IF EndsWithTwoDecimals(numStr, ",") THEN ReplaceFirst(numStr, ",", ".")
             ELSE RemoveAll(numStr, {","})
        ELSE IF hasDot
        THEN IF EndsWithTwoDecimals(numStr, ".") THEN numStr
             ELSE RemoveAll(numStr, {"."})
        ELSE numStr

\* 10 to the power n
RECURSIVE Pow10(_)
Pow10(n) == IF n = 0 THEN 1 ELSE 10 * Pow10(n - 1)

\* Number(numStr) as Num(thousandths); Null stands for NaN.  The strings that reach it
\* consist of digits, dots and commas and start with a digit.
NumberOf(numStr) ==
    LET dots == { i \in 1..Len(numStr) : numStr[i] = "." }
    IN  IF \E i \in 1..Len(numStr) : numStr[i] = "," THEN Null
        ELSE IF Cardinality(dots) > 1 THEN Null
        ELSE IF dots = {} THEN Num(1000 * DigitsValue(numStr))
        ELSE LET dot  == CHOOSE i \in dots : TRUE
                 frac == SubSeq(numStr, dot + 1, Len(numStr))
             IN  Num(1000 * DigitsValue(SubSeq(numStr, 1, dot - 1))
                        + DigitsValue(frac) * Pow10(3 - Len(frac)))

\* parsePrice from the match on: m[0] is the chunk
ParseChunk(t, chunk) ==
    LET value == NumberOf(ApplySeparatorRule(RemoveAll(chunk, {" "})))
    IN  IF value = Null THEN Null
        ELSE [value |-> value.n, currency |-> DetectCurrency(t), raw |-> chunk]

\* parsePrice(text)
parsePrice(str) ==
    LET t == Trim(str)
    IN  IF t = << >> THEN Null
        ELSE IF \A i \in 1..Len(t) : ~IsDigit(t[i]) THEN Null
        ELSE ParseChunk(t, NumberChunk(t, CHOOSE i \in 1..Len(t) :
                                 IsDigit(t[i]) /\ \A j \in 1..(i - 1) : ~IsDigit(t[j])))

PriceTokens ==
    { <<"1">>, <<"2", "9", "9">>, <<"5", "0">>, <<",">>, <<".">>, <<" ">>, <<"k", "r">> }

RECURSIVE PriceTexts(_)
PriceTexts(n) ==
    IF n = 0 THEN { << >> }
    ELSE PriceTexts(n - 1) \cup { t \o k : t \in PriceTexts(n - 1), k \in PriceTokens }

TextCommaComma == <<"1", ",", "2", "9", "9", ",", "5", "0">>
TextDotDot     == <<"1", ".", "2", "9", "9", ".", "5", "0">>
TextDotComma   == <<"1", ".", "2", "9", "9", ",", "5", "0">>
TextCommaGroup == <<"1", ",", "2", "9", "9">>

InitPrice ==
    /\ StoreStart
    /\ loc = [c \in Tabs |-> PageA]
    /\ SigIdle
    /\ UrlIdle
    /\ PageIdle
    /\ HandlersIdle
    /\ text \in PriceTexts(MaxPriceTokens)
                \cup { TextCommaComma, TextDotDot, TextDotComma, TextCommaGroup }
    /\ parsed = NotParsed

\* a call of parsePrice
ParsePrice ==
    /\ parsed = NotParsed
    /\ parsed' = parsePrice(text)
    /\ UNCHANGED <<storeVars, sigVars, urlVars, text, pageVars, handlerVars>>

NextPrice == ParsePrice

SpecPrice == InitPrice /\ [][NextPrice]_vars

----------------------------------------------------------------------------
(* SpecIdent: getProductId(url) evaluated for one URL in two page contexts *)

PageOther == [scheme |-> "https", host |-> <<"other", "se">>, path |-> "/p/1", query |-> << >>]

IdentPages == Pages \cup {PageOther}

InitIdent ==
    /\ StoreStart
    /\ ExtIdle
    /\ loc \in [Tabs -> IdentPages]
    /\ SigIdle
    /\ urlA \in {[PageA EXCEPT !.query = q] : q \in BaseQueries} \cup {PageB, PageOther}
    /\ urlB = urlA
    /\ pidA = Null
    /\ pidB = Null
    /\ edits = {}

\* getProductId(urlA) runs in both contexts
ResolveOnPages ==
    /\ pidB = Null
    /\ pidA' = getProductId(urlA, loc["t1"])
    /\ pidB' = getProductId(urlA, loc["t2"])
    /\ UNCHANGED <<storeVars, sigVars, urlA, urlB, edits, extVars>>

NextIdent == ResolveOnPages

SpecIdent == InitIdent /\ [][NextIdent]_vars

----------------------------------------------------------------------------
(* Claims about the price history store *)

Signals == {"Good time to buy", "Fair price", "Consider waiting"}

ProductIds == {getProductId(page, page) : page \in Pages}

\* the stored point a completed call pushed
Holds(history, call) ==
    \E j \in 1..Len(history) :
        /\ history[j].value = call.value
        /\ history[j].currency = call.currency
        /\ history[j].timestamp = call.t

\* C1 as stated: in every stored history, any two points with the same value,
\* adjacent or not, are at least 60 seconds apart.
C1_AnyPairApart ==
    \A p \in DOMAIN store :
        \A i, j \in 1..Len(store[p]) :
            (i < j /\ store[p][i].value = store[p][j].value)
                => store[p][j].timestamp - store[p][i].timestamp >= DEDUP_WINDOW_MS

\* C1 amended: in every stored history, two adjacent points with the same value
\* are at least 60 seconds apart.
C1_AdjacentPairApart ==
    \A p \in DOMAIN store :
        \A i \in 1..(Len(store[p]) - 1) :
            store[p][i].value = store[p][i + 1].value
                => store[p][i + 1].timestamp - store[p][i].timestamp >= DEDUP_WINDOW_MS

\* a history with two adjacent equal values, one call having been suppressed
C1_Witness ==
    /\ \E i \in 1..Len(calls) : ~calls[i].pushed
    /\ \E p \in DOMAIN store :
          \E i \in 1..(Len(store[p]) - 1) : store[p][i].value = store[p][i + 1].value

\* C2: two appends of one value less than 60 seconds apart leave one point; a third
\* append of that value more than 60 seconds after the stored point gives two points.
C2_DedupThenAppend ==
    \A p \in ProductIds :
        /\ ( /\ Len(calls) = 2
             /\ \A i \in 1..2 : calls[i].productId = p /\ calls[i].value = calls[1].value
             /\ calls[2].t - calls[1].t < DEDUP_WINDOW_MS )
           => ( Len(HistoryOf(store, p)) = 1 /\ Holds(store[p], calls[1]) )
        /\ ( /\ Len(calls) = 3
             /\ \A i \in 1..3 : calls[i].productId = p /\ calls[i].value = calls[1].value
             /\ calls[2].t - calls[1].t < DEDUP_WINDOW_MS
             /\ calls[3].t - calls[1].t > DEDUP_WINDOW_MS )
           => ( Len(HistoryOf(store, p)) = 2 /\ Holds(store[p], calls[3]) )

\* three calls with one value: the second suppressed, the third appended
C2_Witness ==
    /\ Len(calls) = 3
    /\ \A i \in 1..3 : calls[i].value = calls[1].value
    /\ calls[2].t - calls[1].t < DEDUP_WINDOW_MS
    /\ calls[3].t - calls[1].t > DEDUP_WINDOW_MS
    /\ Len(HistoryOf(store, calls[1].productId)) = 2

\* the calls that appended a point to a product's history, in order
Pushed(productId) ==
    SelectSeq(calls, LAMBDA call : call.pushed /\ call.productId = productId)

\* C3: every stored history holds at most 200 points, the most recently appended
\* ones in their original order; once 200 or more were appended it holds exactly 200.
C3_CappedMostRecent ==
    \A p \in DOMAIN store :
        LET n == Len(Pushed(p))
            h == store[p]
        IN  /\ Len(h) <= HISTORY_CAP
            /\ Len(h) = IF n <= HISTORY_CAP THEN n ELSE HISTORY_CAP
            /\ \A i \in 1..Len(h) :
                   /\ h[i].value = Pushed(p)[n - Len(h) + i].value
                   /\ h[i].currency = Pushed(p)[n - Len(h) + i].currency
                   /\ h[i].timestamp = Pushed(p)[n - Len(h) + i].t

\* 250 distinct points appended to one product: the last 200 are stored
C3_Witness ==
    \E p \in DOMAIN store :
        /\ Len(Pushed(p)) = 250
        /\ Len(store[p]) = 200
        /\ store[p][1].value = Pushed(p)[51].value
        /\ store[p][200].value = Pushed(p)[250].value

\* C4 as stated: when two page contexts append for two different products, every
\* appended point is in the store once both calls have finished.
C4_BothPointsStored ==
    ( /\ getProductId(loc["t1"], loc["t1"]) # getProductId(loc["t2"], loc["t2"])
      /\ \A c \in Tabs : pc[c] = "idle" )
        => \A i \in 1..Len(calls) :
               calls[i].pushed => Holds(HistoryOf(store, calls[i].productId), calls[i])

\* the points of one currency in a product's stored history
PointsIn(productId, currency) ==
    { i \in 1..Len(HistoryOf(store, productId)) :
          HistoryOf(store, productId)[i].currency = currency }

\* C5: buildSummary is null exactly when the product has no stored point of the
\* currency; otherwise lowest, highest and points are the minimum, the maximum and
\* the number of the stored points of that currency alone.
C5_Summary ==
    \A page \in Pages, currency \in Currencies :
        LET s   == buildSummary(store, page, currency)
            p   == getProductId(page, page)
            h   == HistoryOf(store, p)
            own == PointsIn(p, currency)
        IN  /\ (s = Null) <=> (own = {})
            /\ own # {} =>
                  /\ s.points = Cardinality(own)
                  /\ \A i \in own : s.lowest <= h[i].value /\ h[i].value <= s.highest
                  /\ \E i \in own : h[i].value = s.lowest
                  /\ \E i \in own : h[i].value = s.highest
                  /\ s.currency = currency

\* a response whose summary covers two points of one currency, the product's
\* history holding a point of another currency too
C5_Witness ==
    \E c \in Tabs :
        /\ resp[c].ok
        /\ "points" \in DOMAIN resp[c].summary
        /\ resp[c].summary.points = 2
        /\ resp[c].summary.lowest < resp[c].summary.highest
        /\ Len(HistoryOf(store, resp[c].summary.productId)) = 3
        /\ buildSummary(store, PageB, "SEK") = Null

\* C6: buildSummary's result has no current field, and the current value of the
\* TRACK_PRICE_AUTO response and of the widget is the price the same operation
\* extracted from the page.
C6_CurrentIsLive ==
    [][ \A c \in Tabs :
          /\ \A currency \in Currencies :
                buildSummary(store, loc[c], currency) # Null
                    => "current" \notin DOMAIN buildSummary(store, loc[c], currency)
          /\ (pc[c] = "auto_summary" /\ pc'[c] = "idle")
                => resp'[c].ok /\ resp'[c].summary.current = live[c].value
          /\ (pc[c] = "click_render" /\ pc'[c] = "click_summary")
                => widget'[c].current = formatPrice(live'[c].value, live'[c].currency)
          /\ (pc[c] = "click_summary" /\ pc'[c] = "idle")
                => widget'[c].current = formatPrice(live[c].value, live[c].currency)
      ]_vars

\* a response whose current value differs from the last stored value of its currency
C6_Witness ==
    \E c \in Tabs :
        /\ resp[c].ok
        /\ "points" \in DOMAIN resp[c].summary
        /\ LET own == PointsIn(resp[c].summary.productId, resp[c].summary.currency)
           IN  /\ own # {}
               /\ \A i \in own : (\A j \in own : j <= i) =>
                     store[resp[c].summary.productId][i].value # resp[c].summary.current

\* C8 as stated: every signal renderPrice computes from a live price and the
\* history's lowest is one of the three signals.
C8_SignalIsOneOfThree ==
    \A c \in Tabs : lastSignal[c] # NoCall => lastSignal[c] \in Signals

----------------------------------------------------------------------------
(* Claims about the signal engine *)

\* C7: for positive current and lowest, computeSignal is Good time to buy when
\* current <= 1.03 * lowest, Consider waiting when current >= 1.15 * lowest and
\* Fair price otherwise, both bounds inclusive; popup and content script agree.
C7_SignalThresholds ==
    /\ (/\ sigOut.content.computed
        /\ sigCurrent # Undefined /\ sigLowest # Undefined
        /\ sigCurrent.n > 0 /\ sigLowest.n > 0) =>
          /\ (100 * sigCurrent.n <= 103 * sigLowest.n)
                => sigOut.content.signal = "Good time to buy"
          /\ (100 * sigCurrent.n >= 115 * sigLowest.n)
                => sigOut.content.signal = "Consider waiting"
          /\ (100 * sigCurrent.n > 103 * sigLowest.n /\ 100 * sigCurrent.n < 115 * sigLowest.n)
                => sigOut.content.signal = "Fair price"
          /\ (sigLowest.n = 100 /\ sigCurrent.n = 103) => sigOut.content.signal = "Good time to buy"
          /\ (sigLowest.n = 100 /\ sigCurrent.n = 115) => sigOut.content.signal = "Consider waiting"
          /\ (sigLowest.n = 100 /\ sigCurrent.n = 109) => sigOut.content.signal = "Fair price"
    /\ (sigOut.content.computed /\ sigOut.popup.computed)
          => sigOut.popup.signal = sigOut.content.signal

\* both scripts have computed the signal of current = 1.03 * lowest
C7_Witness ==
    /\ sigOut.content.computed /\ sigOut.popup.computed
    /\ sigLowest = Num(100) /\ sigCurrent = Num(103)
    /\ sigOut.content.signal = "Good time to buy"

\* null exactly when lowest is zero or a value is missing, otherwise an integer
\* nearest to 100 * (current - lowest) / lowest
PctSpecified(change) ==
    /\ (change = Null)
          <=> (sigCurrent = Undefined \/ sigLowest = Undefined \/ sigLowest.n = 0)
    /\ (change # Null /\ sigCurrent # Undefined /\ sigLowest # Undefined) =>
          LET d == 200 * (sigCurrent.n - sigLowest.n) - 2 * sigLowest.n * change.n
          IN  -sigLowest.n <= d /\ d <= sigLowest.n

\* C9 as stated: pctChange is null exactly when lowest is zero or a value is
\* missing, and otherwise the integer nearest to ((current - lowest) / lowest) * 100.
C9_PctChange ==
    /\ sigOut.content.computed => PctSpecified(sigOut.content.change)
    /\ sigOut.downloads.computed => PctSpecified(sigOut.downloads.change)

----------------------------------------------------------------------------
(* Claims about product identity *)

ListedTrackingKeys ==
    {"utm_source", "utm_medium", "utm_campaign", "utm_content", "utm_term",
     "gclid", "fbclid", "msclkid", "yclid", "ttclid"}

\* the keys the statements call tracking keys: the listed ones and any other utm_ key
StatedTrackingKeys == ListedTrackingKeys \cup {"utm_id"}

\* C10 as stated: two URLs that differ only by added, removed or reordered tracking
\* parameters (any utm_ key, gclid, fbclid, msclkid, yclid, ttclid) have one ProductId.
C10_TrackingIgnored ==
    (pidB # Null /\ edits \subseteq StatedTrackingKeys) => pidA = pidB

\* C10 amended: two URLs that differ only by added, removed or reordered parameters
\* among the ten keys canonicalUrl lists have one ProductId.
C10_ListedTrackingIgnored ==
    (pidB # Null /\ edits \subseteq ListedTrackingKeys) => pidA = pidB

\* two URLs with different query strings, the difference made of listed keys
C10_Witness ==
    /\ pidB # Null
    /\ pidA = pidB
    /\ edits # {} /\ edits \subseteq ListedTrackingKeys
    /\ urlA.query # urlB.query
    /\ Len(urlB.query) >= 2

\* the parameters of a query string whose key is not a tracking key
Kept(query) == SelectSeq(query, LAMBDA kv : kv[1] \notin StatedTrackingKeys)

\* C11: canonicalUrl keeps every parameter whose key is not a tracking key, with its
\* value and in its relative order; two URLs of one path that differ in the value of
\* such a parameter have different ProductIds.
C11_OtherParamsKept ==
    pidB # Null =>
        /\ Kept(pidA.canon.qs) = Kept(urlA.query)
        /\ Kept(pidB.canon.qs) = Kept(urlB.query)
        /\ ( /\ urlA.path = urlB.path
             /\ Len(Kept(urlA.query)) = Len(Kept(urlB.query))
             /\ \E i \in 1..Len(Kept(urlA.query)) :
                   /\ Kept(urlA.query)[i][1] = Kept(urlB.query)[i][1]
                   /\ Kept(urlA.query)[i][2] # Kept(urlB.query)[i][2] )
           => pidA # pidB

\* two URLs of one path, tracking parameters edited and another variant selected
C11_Witness ==
    /\ pidB # Null
    /\ pidA # pidB
    /\ "variant" \in edits /\ "gclid" \in edits
    /\ Len(Kept(urlB.query)) = 2
    /\ Kept(pidB.canon.qs) = Kept(urlB.query)
    /\ Kept(urlA.query)[1][2] # Kept(urlB.query)[1][2]

----------------------------------------------------------------------------
(* Claims about the price parser *)

\* C12 as stated: the parser maps "149,00 kr" and "149.00 kr" to 149.00 SEK,
\* "1 299 kr" to 1299 SEK and "1.299,50 kr" to 1299.50 SEK.
C12_ParserExamples ==
    parsed # NotParsed =>
        /\ text = Text149Comma  => parsed = [value |-> 14900,  currency |-> "SEK"]
        /\ text = Text149Dot    => parsed = [value |-> 14900,  currency |-> "SEK"]
        /\ text = Text1299Space => parsed = [value |-> 129900, currency |-> "SEK"]
        /\ text = Text1299Mixed => parsed = [value |-> 129950, currency |-> "SEK"]

\* C13: the parser returns null or a candidate with a finite value; it returns null
\* for a text without digits and for a text without a currency marker.
C13_NullOrCandidate ==
    parsed # NotParsed =>
        /\ \/ parsed = Null
           \/ /\ DOMAIN parsed = {"value", "currency"}
              /\ parsed.value \in Nat
              /\ parsed.currency \in {"SEK", "EUR", "USD"}
        /\ (\A i \in 1..Len(text) : ~IsDigit(text[i])) => parsed = Null
        /\ ~HasCurrencyMarker(text) => parsed = Null

\* a text with digits and separators but no currency marker, parsed to null
C13_Witness ==
    /\ parsed = Null
    /\ Len(text) >= 3
    /\ \E i \in 1..Len(text) : IsDigit(text[i])
    /\ ~HasCurrencyMarker(text)

\* the summaries of the first context's product in SEK before and after a step,
\* compared: lowest has not risen and highest has not fallen
SummaryWidens(before, after) ==
    before # Null =>
        /\ after # Null
        /\ after.lowest <= before.lowest
        /\ after.highest >= before.highest

\* C27 as stated: for a fixed product and currency the lowest value reported by
\* buildSummary never increases and the highest never decreases as further points
\* are appended, for any number of appends.
C27_RangeWidens ==
    [][ SummaryWidens(buildSummary(store, loc["t1"], "SEK"),
                      buildSummary(store', loc["t1"], "SEK")) ]_vars

\* old is a prefix of new: nothing was evicted
IsPrefix(old, new) == Len(old) <= Len(new) /\ SubSeq(new, 1, Len(old)) = old

\* C27, amended: the lowest never increases and the highest never decreases over the
\* appends that evict nothing, that is while no more than 200 points were appended.
C27_RangeWidensUntilEviction ==
    [][ LET key == getProductId(loc["t1"], loc["t1"])
        IN  IsPrefix(HistoryOf(store, key), HistoryOf(store', key))
               => SummaryWidens(buildSummary(store, loc["t1"], "SEK"),
                                buildSummary(store', loc["t1"], "SEK")) ]_vars

\* three points appended and none evicted: the range goes from the first to the last
C27_Witness ==
    LET key == getProductId(loc["t1"], loc["t1"])
        s   == buildSummary(store, loc["t1"], "SEK")
    IN  /\ Len(HistoryOf(store, key)) = 3
        /\ Len(Pushed(key)) = 3
        /\ s # Null
        /\ s.lowest = store[key][1].value
        /\ s.highest = store[key][3].value
        /\ s.lowest < s.highest

\* C28: the CO2_ESTIMATE_REQUEST sent from a page's widget carries the material and
\* weight of the snapshot computed for that page's current URL, also when another tab
\* has overwritten LAST_PRODUCT_SNAPSHOT since this page last wrote it.
C28_EstimateOfOwnPage ==
    [][ co2Requests' # co2Requests =>
            co2Payload' = EstimatePayload(SnapshotOf(loc["t1"])) ]_vars

\* the ways of pairing n requests with n notifications
Pairings(n) == {f \in [1..n -> 1..n] : \A i, j \in 1..n : f[i] = f[j] => i = j}

\* the notification carries the request's title and message and is not early
NotificationOf(request, notification) ==
    /\ notification.title = NotifPayloadOf(request.msg).title
    /\ notification.message = NotifPayloadOf(request.msg).message
    /\ notification.at >= request.at + DelaySeconds(request.msg) * 1000

\* C29: each SCHEDULE_NOTIFICATION request is answered with {ok: true, scheduledFor}
\* and leads to exactly one notification, shown no earlier than delaySeconds after the
\* request and carrying that request's title and message, also when a second request
\* arrives before the first alarm has fired.  Stated for the states in which no alarm
\* is set and no alarm handler is running: there the notifications shown pair off
\* with the requests made.
C29_OneNotificationEach ==
    /\ \A k \in 1..Len(scheduled) : scheduled[k].response.ok
    /\ (alarm = Null /\ firing = 0) =>
           /\ Len(shown) = Len(scheduled)
           /\ \E f \in Pairings(Len(scheduled)) :
                  \A k \in 1..Len(scheduled) : NotificationOf(scheduled[k], shown[f[k]])

\* C30: however many times the content script is evaluated in one page, its body runs
\* once: the guard is set on the first run and every later run creates nothing, so at
\* most one widget, one URL-poll timer and one message listener exist per page.
C30_BodyRunsOnce ==
    /\ [](/\ widgets <= 1 /\ timers <= 1 /\ msgListeners <= 1
          /\ evaluations > 0 => injected /\ widgets = 1 /\ timers = 1 /\ msgListeners = 1)
    /\ [][ (evaluations > 0 /\ evaluations' > evaluations) =>
               UNCHANGED <<injected, widgets, timers, msgListeners, docListeners,
                           lastHref, pendingWrites>> ]_vars

\* the guarded function alone was evaluated three times, the page having navigated
\* in between: one widget, one timer, one listener
C30_Witness ==
    /\ script = "part_001"
    /\ evaluations = MaxEvaluations
    /\ navs > 0
    /\ injected
    /\ widgets = 1 /\ timers = 1 /\ msgListeners = 1

\* C26: after every successful TRACK_PRICE_AUTO the response summary contains lowest
\* and highest for the live price's currency and lowest <= current <= highest, for
\* every prior history, also one whose last point has the same value in another
\* currency.
C26_CurrentWithinRange ==
    \A c \in Tabs :
        resp[c].ok =>
            /\ {"lowest", "highest", "current"} \subseteq DOMAIN resp[c].summary
            /\ resp[c].summary.lowest <= resp[c].summary.current
            /\ resp[c].summary.current <= resp[c].summary.highest

\* C25: an append suppressed by the dedup rule is a no-op on the persisted store: the
\* map after the call's write equals the map immediately before it, for every
\* product, also when another page context appended after this call's read.
C25_SuppressedIsNoOp ==
    [][ (Len(calls') = Len(calls) + 1 /\ ~calls'[Len(calls')].pushed) => store' = store ]_vars

\* new is a suffix of old followed by at most one point; points are dropped from the
\* front only, and only to keep the history at the retention cap
SuffixPlusOne(old, new) ==
    \E k \in 0..Len(old) :
        LET kept == SubSeq(old, k + 1, Len(old))
        IN  /\ \/ new = kept
               \/ Len(new) = Len(kept) + 1 /\ SubSeq(new, 1, Len(kept)) = kept
            /\ k > 0 => Len(new) = HISTORY_CAP

\* every point is stored under its productId, in the order of its timestamps
WellKeyed(map) ==
    \A key \in DOMAIN map :
        \A i \in 1..Len(map[key]) :
            /\ map[key][i].productId = key
            /\ i < Len(map[key]) => map[key][i].timestamp <= map[key][i + 1].timestamp

\* C24: in a single page context a product's history is append-only: every step leaves
\* each history equal to a suffix of the old one followed by at most one new point,
\* eviction removes only the oldest points, timestamps are non-decreasing and every
\* point's productId is the key it is stored under.
C24_AppendOnly ==
    /\ []WellKeyed(store)
    /\ [][ /\ DOMAIN store \subseteq DOMAIN store'
           /\ \A key \in DOMAIN store' : SuffixPlusOne(HistoryOf(store, key), store'[key]) ]_vars

\* the first eviction: 201 points appended, the oldest one gone
C24_Witness ==
    \E p \in DOMAIN store :
        /\ Len(Pushed(p)) = HISTORY_CAP + 1
        /\ Len(store[p]) = HISTORY_CAP
        /\ store[p][1].timestamp = Pushed(p)[2].t

Parses(thousandths) == parsed # Null /\ parsed.value = thousandths

\* C22: parsePrice applies the separator rule to every matched number string; a
\* grouped number with a two-digit decimal part written with one kind of separator
\* (1,299,50 or 1.299.50) parses to 1299.50, 1.299,50 to 1299.50 and 1,299 to 1299.
C22_SeparatorRule ==
    parsed # NotParsed =>
        /\ text = TextDotComma   => Parses(1299500)
        /\ text = TextCommaGroup => Parses(1299000)
        /\ text = TextCommaComma => Parses(1299500)
        /\ text = TextDotDot     => Parses(1299500)

\* C21: the currency of a parsed candidate follows from the tokens of its text (kr or
\* sek: SEK, {euro} or eur: EUR, ...), for DOM text, meta tags and JSON-LD offers
\* alike: an offer with price p and priceCurrency c yields the candidate {p, c}.
C21_CurrencyFromTokens ==
    parsed # NotParsed =>
        /\ text = Text499Euro        => parsed = [value |-> 49900, currency |-> "EUR"]
        /\ text = OfferText(OfferSek) => parsed = [value |-> 49900, currency |-> "SEK"]
        /\ text = OfferText(OfferEur) => parsed = [value |-> 49900, currency |-> "EUR"]

----------------------------------------------------------------------------
(* Claims about price extraction from the page *)

\* a text that speaks of a monthly amount
MonthlyText(t) ==
    \E k \in 1..(Len(t) - 2) : t[k] = "m" /\ t[k + 1] = "aring" /\ t[k + 2] = "n"

Sek(hundredths) == [value |-> hundredths, currency |-> "SEK"]

\* C14: no element whose text matches the bad-context pattern becomes a DOM candidate;
\* for a page with an element "299 kr/m{aring}n" and an element "2999 kr" near the title
\* the selected price is 2999 kr.
C14_BadContextExcluded ==
    extracted # NotExtracted =>
        /\ \A i \in 1..Len(extracted.domCands) : ~MonthlyText(extracted.domCands[i].text)
        /\ doc.elements \in { <<ElMonth299, ElMain2999>>, <<ElMain2999, ElMonth299>> }
              => extracted.result = Sek(299900)

\* the installment element first, the price element second: one candidate, 2999 kr
C14_Witness ==
    /\ extracted # NotExtracted
    /\ doc.elements = <<ElMonth299, ElMain2999>>
    /\ Len(extracted.domCands) = 1
    /\ extracted.result = Sek(299900)

\* the elements of a document that can give a DOM candidate
Usable(el) ==
    /\ el.visible /\ ~el.banned
    /\ HasCurrencyMarker(el.text) /\ ~MonthlyText(el.text)

\* C19: extractPriceFromPage returns the best DOM candidate whenever one exists, whether
\* the metadata candidate agrees or differs; without a DOM candidate the metadata
\* candidate (meta tag, then JSON-LD); without both the parse of the body text, else null.
C19_DomFirst ==
    extracted # NotExtracted =>
        /\ (\E i \in 1..Len(doc.elements) : Usable(doc.elements[i]))
              <=> extracted.domBest # Null
        /\ extracted.domBest # Null => extracted.result = extracted.domBest
        /\ (extracted.domBest = Null /\ extracted.metaBest # Null)
              => extracted.result = extracted.metaBest
        /\ (extracted.domBest = Null /\ extracted.metaBest = Null)
              => extracted.result = IF doc.body = Text2999 THEN Sek(299900) ELSE Null
        /\ doc.meta = <<Text499Bare, Text149Comma>> => extracted.metaBest = Sek(14900)
        /\ (doc.meta \in { << >>, <<Text499Bare>> } /\ doc.jsonld = << >>)
              => extracted.metaBest = Null
        /\ (doc.meta \in { << >>, <<Text499Bare>> } /\ Len(doc.jsonld) = 1)
              => extracted.metaBest = Sek(49900)
        /\ (doc.meta \in { << >>, <<Text499Bare>> } /\ Len(doc.jsonld) = 2)
              => extracted.metaBest = Sek(29900)
        /\ (doc.elements = <<ElMain499>> /\ Len(doc.jsonld) = 1 /\ doc.meta = << >>)
              => extracted.result = Sek(49900)

\* a DOM candidate of 2999 kr chosen over a metadata candidate of 149 kr
C19_Witness ==
    /\ extracted # NotExtracted
    /\ extracted.domBest = Sek(299900)
    /\ extracted.metaBest = Sek(14900)
    /\ extracted.result = Sek(299900)

\* C20: pickBest returns null for an empty candidate list, and otherwise a candidate of
\* the highest score that has the largest value among those of that score.
C20_PickBest ==
    extracted # NotExtracted =>
        /\ (Len(extracted.domCands) = 0) <=> (extracted.domBest = Null)
        /\ Len(extracted.domCands) > 0 =>
              \E i \in 1..Len(extracted.domCands) :
                  /\ extracted.domCands[i].value = extracted.domBest.value
                  /\ extracted.domCands[i].currency = extracted.domBest.currency
                  /\ \A j \in 1..Len(extracted.domCands) :
                        /\ extracted.domCands[j].score <= extracted.domCands[i].score
                        /\ extracted.domCands[j].score = extracted.domCands[i].score
                              => extracted.domCands[j].value <= extracted.domCands[i].value

\* two candidates of one score, the smaller value first: the larger one is returned
C20_Witness ==
    /\ extracted # NotExtracted
    /\ Len(extracted.domCands) = 2
    /\ extracted.domCands[1].score = extracted.domCands[2].score
    /\ extracted.domCands[1].value < extracted.domCands[2].value
    /\ extracted.domBest.value = extracted.domCands[2].value

----------------------------------------------------------------------------
(* Claims about the message handlers *)

\* the sendResponse calls made for request k
ResponsesTo(k) == { i \in 1..Len(sent) : sent[i].request = k }

\* C15: every TRACK_PRICE_AUTO request receives exactly one response, whatever the
\* outcome of the extraction and of the storage read and write: once the handler of
\* a request has ended, one response has been sent for it.
C15_ExactlyOneResponse ==
    pc["t1"] = "idle" => \A k \in 1..requests : Cardinality(ResponsesTo(k)) = 1

\* C16: select mode ends on the first click or on Escape: selecting is false, the hint
\* is removed and every listener of the mode (mouseover, mouseout, click, keydown) is
\* deregistered, so no select-mode listener is registered while the mode is inactive.
C16_NoListenerWhenInactive ==
    ~selecting => (modeListeners = {} /\ keyListeners = 0 /\ ~hintEl)

\* the sendResponse calls made for CO2 request k
Co2ResponsesTo(k) == { i \in 1..Len(co2Sent) : co2Sent[i].request = k }

\* C17: every CO2_ESTIMATE_REQUEST receives exactly one response: {ok: true, result}
\* with the four result fields when the search and the estimate succeeded, otherwise
\* {ok: false, error} with one error string, whichever step failed and also when the
\* request has no payload.
C17_OneCo2Response ==
    /\ \A k \in 1..co2Requests :
          Cardinality(Co2ResponsesTo(k)) = IF k = co2Requests /\ co2Pc # "idle" THEN 0 ELSE 1
    /\ \A i \in 1..Len(co2Sent) :
          IF co2Sent[i].step = "done"
          THEN /\ co2Sent[i].response.ok
               /\ DOMAIN co2Sent[i].response = {"ok", "result"}
               /\ DOMAIN co2Sent[i].response.result = {"co2e", "co2e_unit", "factor_name", "unit_type"}
          ELSE /\ ~co2Sent[i].response.ok
               /\ DOMAIN co2Sent[i].response = {"ok", "error"}

\* one request without payload, one failed at the estimate, both answered with an error
C17_Witness ==
    /\ co2Pc = "idle"
    /\ co2Requests = 2
    /\ Len(co2Sent) = 2
    /\ co2Sent[1].step = "payload" /\ ~co2Sent[1].response.ok
    /\ co2Sent[2].step = "estimate" /\ ~co2Sent[2].response.ok

\* C18: a URL change is seen by the next tick of the poll, which rewrites the single
\* LAST_PRODUCT_SNAPSHOT slot: once the poll has seen the current URL and the writes
\* have finished, the stored url, canonicalUrl and productId are those of the current
\* URL, and nothing of the previous snapshot is left.
C18_SnapshotFollowsUrl ==
    (lastHref = loc["t1"] /\ pendingWrites = << >>) =>
        /\ snapshot # Null
        /\ snapshot.url = loc["t1"]
        /\ snapshot.canonicalUrl = canonicalUrl(loc["t1"])
        /\ snapshot.productId = getProductId(loc["t1"], loc["t1"])

====
